---- MODULE Spec2Model ----
(***************************************************************************)
(* NetworkTables v3 client of gloworm-app (package networktables): the     *)
(* connection manager (getConn, handshake, listen, Close), the public      *)
(* operations that write to the connection, and the badger-backed store.   *)
(***************************************************************************)
EXTENDS Integers, Sequences, FiniteSets, TLC

(***************************************************************************)
(* Bounds of the model.                                                    *)
(***************************************************************************)
\* connections the client may dial in one behaviour; further dials fail
MaxConns == 2
\* entry-assignments the server sends during one handshake
MaxAssign == 2
\* largest entry id the server assigns (ids are 0..MaxId)
MaxId == 1
\* largest sequence number carried by an assignment
MaxSeq == 1
\* calls of UpdateValue and Create in one behaviour
MaxCalls == 2

(***************************************************************************)
(* Program constants.                                                      *)
(***************************************************************************)
createID == 65535
keepAliveMessageType == 0
protocolVersionUnsupportedMessageType == 2
serverHelloCompleteMessageType == 3
serverHelloMessageType == 4
entryAssignmentMessageType == 16
entryUpdateMessageType == 17
entryFlagsUpdateMessageType == 18
entryDeleteMessageType == 19
clearAllEntriesMessageType == 20

\* the tasks that call public operations
Callers == {"c1", "c2"}
ConnIds == 1..MaxConns
\* entry names, in the key order of the store's iterator
NameOrder == <<"x", "y">>
Names == {NameOrder[i] : i \in 1..Len(NameOrder)}
Ids == 0..MaxId
Seqs == 0..MaxSeq
Vals == {"a", "b"}

\* an Entry (store.go: type Entry)
Entry(n, i, s, o, v) == [name |-> n, id |-> i, seq |-> s, opt |-> o, val |-> v]
AllEntries == {Entry(n, i, s, o, v) : n \in Names, i \in Ids, s \in Seqs,
                                      o \in BOOLEAN, v \in Vals}
(***************************************************************************)
(* The badger store: five key-prefixed records per entry.                  *)
(*   <id>/value  <id>/opt  <id>/seq  names/<name>  ids/<id>                *)
(* Each record family is a partial function; a key is present iff it is in *)
(* the function's domain.                                                  *)
(***************************************************************************)
Put(f, k, v) == [x \in DOMAIN f \cup {k} |-> IF x = k THEN v ELSE f[x]]
Del(f, k) == [x \in DOMAIN f \ {k} |-> f[x]]
NoRec == [x \in {} |-> 0]
EmptyStore == [val |-> NoRec, opt |-> NoRec, seq |-> NoRec, names |-> NoRec, ids |-> NoRec]

\* getID: tx.Get("names/"+name); ok = FALSE when the key is missing
getID(s, name) ==
    IF name \in DOMAIN s.names THEN [ok |-> TRUE, id |-> s.names[name]]
                               ELSE [ok |-> FALSE, id |-> 0]

\* deleteEntry: five tx.Delete calls; deleting a missing key is no error
deleteEntry(s, id, name) ==
    [val |-> Del(s.val, id), opt |-> Del(s.opt, id), seq |-> Del(s.seq, id),
     names |-> Del(s.names, name), ids |-> Del(s.ids, id)]

\* a Create that sets the five records without removing the name's old entry
StoreCreate_NoDelete(s, e) ==
    [val |-> Put(s.val, e.id, e.val), opt |-> Put(s.opt, e.id, e.opt),
     seq |-> Put(s.seq, e.id, e.seq), names |-> Put(s.names, e.name, e.id),
     ids |-> Put(s.ids, e.id, e.name)]
\* badgerDB.Create: the error of getID is dropped, so an unknown name deletes id 0
StoreCreate(s, e) ==
    LET id == getID(s, e.name).id
        d  == deleteEntry(s, id, e.name)
    IN [val |-> Put(d.val, e.id, e.val), opt |-> Put(d.opt, e.id, e.opt),
        seq |-> Put(d.seq, e.id, e.seq), names |-> Put(d.names, e.name, e.id),
        ids |-> Put(d.ids, e.id, e.name)]

\* badgerDB.GetByName: id, then sequence number, value and options of that id
StoreGetByName(s, name) ==
    LET r == getID(s, name) IN
    IF r.ok /\ r.id \in DOMAIN s.seq /\ r.id \in DOMAIN s.val /\ r.id \in DOMAIN s.opt
    THEN [ok |-> TRUE, e |-> Entry(name, r.id, s.seq[r.id], s.opt[r.id], s.val[r.id])]
    ELSE [ok |-> FALSE, e |-> Entry(name, 0, 0, FALSE, "a")]

\* badgerDB.GetNames: the keys under names/, in key order
RECURSIVE NamesFrom(_, _)
NamesFrom(s, i) ==
    IF i > Len(NameOrder) THEN <<>>
    ELSE (IF NameOrder[i] \in DOMAIN s.names THEN <<NameOrder[i]>> ELSE <<>>)
         \o NamesFrom(s, i + 1)
\* a GetNames whose iterator stops after the first key
StoreGetNames_FirstOnly(s) ==
    IF NamesFrom(s, 1) = <<>> THEN <<>> ELSE <<NamesFrom(s, 1)[1]>>
StoreGetNames(s) == NamesFrom(s, 1)

\* badgerDB.UpdateValue: sets <id>/value and <id>/seq, whether or not the id exists
StoreUpdateValue(s, id, seq, v) ==
    [s EXCEPT !.val = Put(s.val, id, v), !.seq = Put(s.seq, id, seq)]

\* badgerDB.UpdateOptions: sets <id>/opt
StoreUpdateOptions(s, id, o) == [s EXCEPT !.opt = Put(s.opt, id, o)]

\* a Delete that removes the value, options and sequence records only
StoreDelete_KeepIndex(s, id) ==
    IF id \in DOMAIN s.ids
    THEN [ok |-> TRUE, s |-> [s EXCEPT !.val = Del(s.val, id), !.opt = Del(s.opt, id),
                                       !.seq = Del(s.seq, id)]]
    ELSE [ok |-> FALSE, s |-> s]
\* badgerDB.Delete: getName(id), then deleteEntry
StoreDelete(s, id) ==
    IF id \in DOMAIN s.ids THEN [ok |-> TRUE, s |-> deleteEntry(s, id, s.ids[id])]
                           ELSE [ok |-> FALSE, s |-> s]

\* badgerDB.DeleteByName: getID(name), then deleteEntry
StoreDeleteByName(s, name) ==
    IF getID(s, name).ok
    THEN [ok |-> TRUE, s |-> deleteEntry(s, getID(s, name).id, name)]
    ELSE [ok |-> FALSE, s |-> s]

\* badgerDB.Clear: deletes every key
StoreClear(s) == EmptyStore

\* the stores an earlier session can leave behind: up to two creates on an empty store
SeedStores ==
    {EmptyStore}
    \cup {StoreCreate(EmptyStore, a) : a \in AllEntries}
    \cup {StoreCreate(StoreCreate(EmptyStore, a), b) : a, b \in AllEntries}

(***************************************************************************)
(* The codec (type uleb128): a uint64 is the sequence of its 64 bits, least *)
(* significant first; a byte is a number in 0..255.                        *)
(***************************************************************************)
\* bits of a uint64
Width == 64

U64Zero == [i \in 1..Width |-> 0]
\* the uint64 whose only set bit is bit k (2^k), and the one with the k low bits set
Pow2(k) == [i \in 1..Width |-> IF i = k + 1 THEN 1 ELSE 0]
Ones(k) == [i \in 1..Width |-> IF i <= k THEN 1 ELSE 0]
\* uint64(n) of a small non-negative int (a len())
U64(n) == [i \in 1..Width |-> IF i <= 31 THEN (n \div 2^(i - 1)) % 2 ELSE 0]
\* the int a uint64 below 2^31 holds
RECURSIVE SumBits(_, _)
SumBits(V, i) == IF i > 31 THEN 0 ELSE V[i] * 2^(i - 1) + SumBits(V, i + 1)
ToInt(V) == SumBits(V, 1)
FitsInt(V) == \A i \in 32..Width : V[i] = 0

\* uint8(ul.V & 0x7f)
Low7(V) == V[1] + 2 * V[2] + 4 * V[3] + 8 * V[4] + 16 * V[5] + 32 * V[6] + 64 * V[7]
\* a shift that drops eight bits
Shr7_ByEight(V) == [i \in 1..Width |-> IF i + 8 <= Width THEN V[i + 8] ELSE 0]
\* ul.V >>= 7
Shr7(V) == [i \in 1..Width |-> IF i + 7 <= Width THEN V[i + 7] ELSE 0]
\* uint64(c) << s: the bits pushed past bit 63 are lost (all of them when s >= 64)
Shl(c, s) ==
    [i \in 1..Width |-> IF i - 1 >= s /\ i - 1 < s + 8 THEN (c \div 2^(i - 1 - s)) % 2 ELSE 0]
\* x | y
Or(x, y) == [i \in 1..Width |-> IF x[i] = 1 \/ y[i] = 1 THEN 1 ELSE 0]

\* uleb128.Encode: the bytes handed to w.Write
RECURSIVE uleb128Encode(_)
uleb128Encode(V) ==
    IF Shr7(V) # U64Zero THEN <<Low7(V) + 128>> \o uleb128Encode(Shr7(V))
                         ELSE <<Low7(V)>>

\* uleb128.Decode, the loop: x and s are its locals, total the bytes read so far,
\* pos the next byte of the reader; reading past the end is io.ReadFull's error
RECURSIVE uleb128DecodeLoop(_, _, _, _, _)
uleb128DecodeLoop(bytes, pos, x, s, total) ==
    IF pos > Len(bytes) THEN [ok |-> FALSE, v |-> U64Zero, n |-> total]
    ELSE IF bytes[pos] < 128
         THEN [ok |-> TRUE, v |-> Or(x, Shl(bytes[pos] % 128, s)), n |-> total + 1]
         ELSE uleb128DecodeLoop(bytes, pos + 1, Or(x, Shl(bytes[pos] % 128, s)), s + 7,
                                total + 1)

\* uleb128.Decode on the bytes from pos on: error or not, ul.V, bytes read
uleb128Decode(bytes, pos) == uleb128DecodeLoop(bytes, pos, U64Zero, 0, 0)

(***************************************************************************)
(* The entry values (ntBoolean, ntDouble, ntString, ntRawData and the three *)
(* arrays). A double is the uint64 of its IEEE-754 bits (math.Float64bits   *)
(* and Float64frombits are bit casts); a string is the sequence of its      *)
(* bytes. A decoder returns whether it succeeded, the value and the bytes   *)
(* read.                                                                   *)
(***************************************************************************)
\* ntBoolean.Encode
ntBooleanEncode(v) == <<IF v THEN 1 ELSE 0>>

\* ntBoolean.Decode: one byte, 0x01 or 0x00, anything else is an error
ntBooleanDecode(bytes, pos) ==
    IF pos > Len(bytes) THEN [ok |-> FALSE, v |-> FALSE, n |-> 0]
    ELSE IF bytes[pos] = 1 THEN [ok |-> TRUE, v |-> TRUE, n |-> 1]
    ELSE IF bytes[pos] = 0 THEN [ok |-> TRUE, v |-> FALSE, n |-> 1]
    ELSE [ok |-> FALSE, v |-> FALSE, n |-> 1]

\* binary.BigEndian.PutUint64: byte k of the eight (k = 1 is the most significant)
ByteOf(V, k) ==
    LET lo == 8 * (8 - k) IN
    V[lo + 1] + 2 * V[lo + 2] + 4 * V[lo + 3] + 8 * V[lo + 4] + 16 * V[lo + 5]
    + 32 * V[lo + 6] + 64 * V[lo + 7] + 128 * V[lo + 8]

\* ntDouble.Encode
ntDoubleEncode(V) == [k \in 1..8 |-> ByteOf(V, k)]

\* ntDouble.Decode: io.ReadFull of 8 bytes, then binary.BigEndian.Uint64
ntDoubleDecode(bytes, pos) ==
    IF pos + 7 > Len(bytes)
    THEN [ok |-> FALSE, v |-> U64Zero, n |-> IF pos > Len(bytes) THEN 0 ELSE Len(bytes) - pos + 1]
    ELSE [ok |-> TRUE,
          v |-> [i \in 1..Width |->
                    (bytes[pos + 7 - ((i - 1) \div 8)] \div 2^((i - 1) % 8)) % 2],
          n |-> 8]

\* ntRawData.Encode: the length as a uleb128, then the bytes
ntRawDataEncode(v) == uleb128Encode(U64(Len(v))) \o v

\* ntRawData.Decode: the size, then io.ReadFull of that many bytes (a size no
\* buffer can have makes make() panic; the reader never holds that many bytes)
ntRawDataDecode(bytes, pos) ==
    LET size == uleb128Decode(bytes, pos)
        from == pos + size.n
        have == IF from > Len(bytes) THEN 0 ELSE Len(bytes) - from + 1
    IN IF ~size.ok THEN [ok |-> FALSE, v |-> <<>>, n |-> size.n]
       ELSE IF ~FitsInt(size.v) \/ ToInt(size.v) > have
            THEN [ok |-> FALSE, v |-> <<>>, n |-> size.n + have]
            ELSE [ok |-> TRUE, v |-> SubSeq(bytes, from, from + ToInt(size.v) - 1),
                  n |-> size.n + ToInt(size.v)]

\* ntString.Encode and Decode: the string's bytes as raw data
ntStringEncode(v) == ntRawDataEncode(v)
ntStringDecode(bytes, pos) == ntRawDataDecode(bytes, pos)

\* the Encode and Decode of the element type of an array
ElemEncode(kind, x) ==
    CASE kind = "boolean_array" -> ntBooleanEncode(x)
      [] kind = "double_array"  -> ntDoubleEncode(x)
      [] kind = "string_array"  -> ntStringEncode(x)
ElemDecode(kind, bytes, pos) ==
    CASE kind = "boolean_array" -> ntBooleanDecode(bytes, pos)
      [] kind = "double_array"  -> ntDoubleDecode(bytes, pos)
      [] kind = "string_array"  -> ntStringDecode(bytes, pos)

\* []byte{uint8(len(ba.V))}: the count byte of an array
CountByte(len) == len % 256

\* the variants of ntEntryValue: those encoded in one piece, and the arrays,
\* whose Encode and Decode loop over the elements
ScalarTypes == {"boolean", "double", "string", "raw"}
ArrayTypes == {"boolean_array", "double_array", "string_array"}
EntryTypes == ScalarTypes \cup ArrayTypes

\* ntEntryValue.Encode: the switch on ev.Type, for the variants without a loop
ntEntryValueEncode(type, v) ==
    CASE type = "boolean" -> ntBooleanEncode(v)
      [] type = "double"  -> ntDoubleEncode(v)
      [] type = "string"  -> ntStringEncode(v)
      [] type = "raw"     -> ntRawDataEncode(v)

\* ntEntryValue.Decode: the switch on ev.Type, for the variants without a loop
ntEntryValueDecode(type, bytes, pos) ==
    CASE type = "boolean" -> ntBooleanDecode(bytes, pos)
      [] type = "double"  -> ntDoubleDecode(bytes, pos)
      [] type = "string"  -> ntStringDecode(bytes, pos)
      [] type = "raw"     -> ntRawDataDecode(bytes, pos)

(***************************************************************************)
(* State of the client (type Client), of its sockets and of its tasks.     *)
(***************************************************************************)
VARIABLES
    store,        \* contents of the Store in use
    userStore,    \* c.Store != nil
    memoryStore,  \* c.memoryStore: "nil", "open" or "closed" (db.Close called)
    storeMu,      \* holder of c.storeMu, or "free"
    conn,         \* c.conn: 0 is nil, k >= 1 is the k-th dialed socket
    connMu,       \* holder of c.connMu, or "free"
    nextConn,     \* number of sockets dialed so far
    closed,       \* sockets on which conn.Close() was called
    peerGone,     \* sockets the server has closed or reset
    pc,           \* position of each caller inside its public operation
    op,           \* the public operation each caller is running
    target,       \* the net.Conn getConn returned to each caller
    res,          \* what the public operation returned
    hs,           \* locals of the handshake in progress (or of the last one)
    hsComplete,   \* sockets on which client-hello-complete was written
    rpc,          \* position of the reader goroutine spawned for each socket
    rtarget,      \* the socket a reader's pending Decode(c.conn) is reading from
    rmsg,         \* message type the reader has decoded and not yet dispatched
    loc,          \* arguments and locals of each caller's UpdateValue or Create
    wire,         \* frames written by the calls whose arguments are tracked in loc
    calls,        \* number of such calls made so far
    store0,       \* contents of the Store before the calls recorded in hist
    hist,         \* the calls made on the Store interface directly, in order
    codec,        \* a value given to an Encode method, the bytes, and what Decode made of them
    inbound       \* the bytes the server wrote on the socket and how far the reader has read

vars == <<store, userStore, memoryStore, storeMu, conn, connMu, nextConn, closed,
          peerGone, pc, op, target, res, hs, hsComplete, rpc, rtarget, rmsg, loc,
          wire, calls, store0, hist, codec, inbound>>

storeVars == <<store, userStore, memoryStore, storeMu>>
sockVars == <<conn, connMu, nextConn, closed, peerGone>>
callVars == <<pc, op, target, res>>
readerVars == <<rpc, rtarget, rmsg>>

\* nothing was received on the socket
NoInbound == [buf |-> <<>>, pos |-> 1, starts |-> {}, last |-> 0]

\* no value was encoded or decoded yet
NoCodec == [st |-> "idle", kind |-> "none", v |-> 0, buf |-> <<>>, nw |-> 0,
            out |-> [ok |-> FALSE, v |-> 0, n |-> 0], i |-> 0, pos |-> 0]

\* a call whose arguments are not tracked (Ping, Close, a Create of any entry)
NoLoc == [name |-> "", id |-> 0, seq |-> 0, opt |-> FALSE, val |-> ""]

NoHs == [conn |-> 0, serverNames |-> {}, last |-> NoRec, clientNames |-> <<>>,
         idx |-> 1, sent |-> <<>>, recv |-> 0, first |-> -1, result |-> "none"]

\* a Client on which no method was called yet
InitIdle ==
    /\ memoryStore = "nil"
    /\ storeMu = "free"
    /\ conn = 0
    /\ connMu = "free"
    /\ nextConn = 0
    /\ closed = {}
    /\ peerGone = {}
    /\ pc = [p \in Callers |-> "done"]
    /\ op = [p \in Callers |-> "none"]
    /\ target = [p \in Callers |-> 0]
    /\ res = [p \in Callers |-> "none"]
    /\ hs = NoHs
    /\ hsComplete = {}
    /\ rpc = [k \in ConnIds |-> "none"]
    /\ rtarget = [k \in ConnIds |-> 0]
    /\ rmsg = [k \in ConnIds |-> "none"]
    /\ loc = [p \in Callers |-> NoLoc]
    /\ wire = <<>>
    /\ calls = 0
    /\ codec = NoCodec
    /\ inbound = NoInbound

InitCommon ==
    /\ InitIdle
    /\ hist = <<>>
    /\ store0 = EmptyStore

\* a freshly constructed Client, configured with an empty Store
Init ==
    /\ InitCommon
    /\ userStore = TRUE
    /\ store = EmptyStore

\* the store can serve operations: a configured Store, or the opened badger db
StoreUsable == userStore \/ memoryStore = "open"

\* a Write on socket k may succeed / may fail
MayWrite(k) == k \notin closed
MayFailWrite(k) == k \in closed \cup peerGone

\* a panic in any goroutine ends the process
Alive == \A k \in ConnIds : rpc[k] # "panic"

\* entryFromAssignment: the wire fields widened to the Entry's ints
entryFromAssignment(a) == Entry(a.name, a.id, a.seq, a.opt, a.val)

\* assignmentFromEntry: id and sequence number narrowed to uint16
assignmentFromEntry(id, e) ==
    [name |-> e.name, id |-> id % 65536, seq |-> e.seq % 65536, opt |-> e.opt, val |-> e.val]

\* a writeEntryAssignment that sends the entry's own id
writeEntryAssignment_OwnId(e) == assignmentFromEntry(e.id, e)
\* what writeEntryAssignment puts on the wire for an entry
writeEntryAssignment(e) == assignmentFromEntry(createID, e)

(***************************************************************************)
(* Public operations: Ping, Create and Close. StartOp is the call; a caller *)
(* that is not inside an operation is at "done", with the last result.     *)
(***************************************************************************)
StartOp(p, o) ==
    /\ Alive
    /\ pc[p] = "done"
    /\ op' = [op EXCEPT ![p] = o]
    /\ pc' = [pc EXCEPT ![p] = IF o = "close" THEN "close_store" ELSE "getconn"]
    /\ res' = [res EXCEPT ![p] = "none"]
    /\ UNCHANGED <<storeVars, sockVars, target, hs, hsComplete, readerVars>>
    /\ UNCHANGED <<loc, wire, calls, store0, hist, codec, inbound>>

\* the public operation returns r to its caller
Returns(p, r) ==
    /\ pc' = [pc EXCEPT ![p] = "done"]
    /\ res' = [res EXCEPT ![p] = r]
    /\ op' = [op EXCEPT ![p] = "none"]
    /\ target' = [target EXCEPT ![p] = 0]
    /\ loc' = [loc EXCEPT ![p] = NoLoc]

\* a getConn that dials whether or not a handle is set
connIsNil_Always == TRUE
\* getConn, line 207: if c.conn == nil
connIsNil == conn = 0
\* getConn, lines 204-207 and 230: with a handle set, it is returned under the lock
GetConn(p) ==
    /\ Alive
    /\ pc[p] = "getconn"
    /\ connMu = "free"
    /\ IF connIsNil
       THEN /\ connMu' = p
            /\ pc' = [pc EXCEPT ![p] = "dial"]
            /\ UNCHANGED target
       ELSE /\ target' = [target EXCEPT ![p] = conn]
            /\ pc' = [pc EXCEPT ![p] = "write_type"]
            /\ UNCHANGED connMu
    /\ UNCHANGED <<storeVars, conn, nextConn, closed, peerGone, op, res, hs, hsComplete,
                   readerVars>>
    /\ UNCHANGED <<loc, wire, calls, store0, hist, codec, inbound>>

\* getConn, lines 213-218: net.Dial; on success c.conn = conn
Dial(p) ==
    /\ Alive
    /\ pc[p] = "dial"
    /\ \/ /\ nextConn < MaxConns
          /\ nextConn' = nextConn + 1
          /\ conn' = nextConn + 1
          /\ hs' = [NoHs EXCEPT !.conn = nextConn + 1, !.result = "running"]
          /\ pc' = [pc EXCEPT ![p] = "hs_hello"]
          /\ UNCHANGED <<connMu, res, op, target, loc>>
       \/ /\ connMu' = "free"
          /\ Returns(p, "err")
          /\ UNCHANGED <<conn, nextConn, hs>>
    /\ UNCHANGED <<storeVars, closed, peerGone, hsComplete, readerVars>>
    /\ UNCHANGED <<wire, calls, store0, hist, codec, inbound>>

\* handshake returns an error: getConn goes on to line 222
HsFail(p) ==
    /\ hs' = [hs EXCEPT !.result = "failed"]
    /\ pc' = [pc EXCEPT ![p] = "spawn"]

\* handshake, lines 237-259: getStore (takes storeMu unless a Store is
\* configured), then writeClientHello
HsHello(p) ==
    /\ Alive
    /\ pc[p] = "hs_hello"
    /\ userStore \/ storeMu = "free"
    /\ memoryStore' = IF ~userStore /\ memoryStore = "nil" THEN "open" ELSE memoryStore
    /\ \/ /\ MayWrite(hs.conn)
          /\ pc' = [pc EXCEPT ![p] = "hs_await"]
          /\ UNCHANGED hs
       \/ /\ MayFailWrite(hs.conn)
          /\ HsFail(p)
    /\ UNCHANGED <<store, userStore, storeMu, sockVars, op, target, res, hsComplete,
                   readerVars>>
    /\ UNCHANGED <<loc, wire, calls, store0, hist, codec, inbound>>

\* the message types a server can answer the client hello with
FirstTypes == {serverHelloMessageType, protocolVersionUnsupportedMessageType,
               serverHelloCompleteMessageType, entryAssignmentMessageType}

\* readServerHello, lines 580-596: anything but a server hello is an error
readServerHello(t) == t = serverHelloMessageType

\* handshake, lines 261-264
HsAwait(p) ==
    /\ Alive
    /\ pc[p] = "hs_await"
    /\ \/ /\ hs.conn \in peerGone
          /\ HsFail(p)
       \/ /\ hs.conn \notin peerGone
          /\ \E t \in FirstTypes :
                IF readServerHello(t)
                THEN /\ hs' = [hs EXCEPT !.first = t]
                     /\ pc' = [pc EXCEPT ![p] = "hs_recv"]
                ELSE /\ hs' = [hs EXCEPT !.first = t, !.result = "failed"]
                     /\ pc' = [pc EXCEPT ![p] = "spawn"]
    /\ UNCHANGED <<storeVars, sockVars, op, target, res, hsComplete, readerVars>>
    /\ UNCHANGED <<loc, wire, calls, store0, hist, codec, inbound>>

\* handshake, lines 277-307: the assignment loop, then GetNames
HsRecv(p, E) ==
    /\ Alive
    /\ pc[p] = "hs_recv"
    /\ \/ /\ hs.conn \in peerGone
          /\ HsFail(p)
          /\ UNCHANGED store
       \/ \* an unexpected message type, or an assignment that does not decode
          /\ hs.conn \notin peerGone
          /\ HsFail(p)
          /\ UNCHANGED store
       \/ \* server-hello-complete
          /\ hs.conn \notin peerGone
          /\ IF StoreUsable
             THEN /\ hs' = [hs EXCEPT !.clientNames = StoreGetNames(store), !.idx = 1]
                  /\ pc' = [pc EXCEPT ![p] = "hs_send"]
             ELSE HsFail(p)
          /\ UNCHANGED store
       \/ \* entry-assignment
          /\ hs.conn \notin peerGone
          /\ hs.recv < MaxAssign
          /\ \E a \in E :
                IF StoreUsable
                THEN /\ store' = StoreCreate(store, entryFromAssignment(a))
                     /\ hs' = [hs EXCEPT !.serverNames = @ \cup {a.name},
                                         !.last = Put(@, a.name, a),
                                         !.recv = @ + 1]
                     /\ UNCHANGED pc
                ELSE /\ HsFail(p)
                     /\ UNCHANGED store
    /\ UNCHANGED <<userStore, memoryStore, storeMu, sockVars, op, target, res, hsComplete,
                   readerVars>>
    /\ UNCHANGED <<loc, wire, calls, store0, hist, codec, inbound>>

\* handshake, lines 310-342: one iteration of the loop over clientNames, or,
\* after the last one, client-hello-complete
HsSend(p) ==
    /\ Alive
    /\ pc[p] = "hs_send"
    /\ IF hs.idx > Len(hs.clientNames)
       THEN \/ /\ MayWrite(hs.conn)
               /\ hsComplete' = hsComplete \cup {hs.conn}
               /\ hs' = [hs EXCEPT !.result = "ok"]
               /\ pc' = [pc EXCEPT ![p] = "spawn"]
            \/ /\ MayFailWrite(hs.conn)
               /\ HsFail(p)
               /\ UNCHANGED hsComplete
       ELSE /\ UNCHANGED hsComplete
            /\ LET n == hs.clientNames[hs.idx]
                   r == StoreGetByName(store, n)
               IN IF n \in hs.serverNames
                  THEN /\ hs' = [hs EXCEPT !.idx = @ + 1]
                       /\ UNCHANGED pc
                  ELSE IF ~StoreUsable \/ ~r.ok
                  THEN HsFail(p)
                  ELSE \/ /\ MayWrite(hs.conn)
                          /\ hs' = [hs EXCEPT !.idx = @ + 1,
                                              !.sent = Append(@, writeEntryAssignment(r.e))]
                          /\ UNCHANGED pc
                       \/ /\ MayFailWrite(hs.conn)
                          /\ HsFail(p)
    /\ UNCHANGED <<storeVars, sockVars, op, target, res, readerVars>>
    /\ UNCHANGED <<loc, wire, calls, store0, hist, codec, inbound>>

\* getConn, lines 220-230: the result of c.handshake() is dropped, the reader
\* goroutine is started and c.conn is returned
Spawn(p) ==
    /\ Alive
    /\ pc[p] = "spawn"
    /\ connMu' = "free"
    /\ rpc' = [rpc EXCEPT ![conn] = "check"]
    /\ target' = [target EXCEPT ![p] = conn]
    /\ pc' = [pc EXCEPT ![p] = "write_type"]
    /\ hs' = NoHs
    /\ UNCHANGED <<storeVars, conn, nextConn, closed, peerGone, op, res, hsComplete,
                   rtarget, rmsg>>
    /\ UNCHANGED <<loc, wire, calls, store0, hist, codec, inbound>>

\* badgerDB.GetIDSeq: getID, then getSequenceNumber of that id
StoreGetIDSeq(s, name) ==
    LET r == getID(s, name) IN
    IF r.ok /\ r.id \in DOMAIN s.seq
    THEN [ok |-> TRUE, id |-> r.id, seq |-> s.seq[r.id]]
    ELSE [ok |-> FALSE, id |-> 0, seq |-> 0]

\* a call of UpdateValue(n, v)
StartUpdateValue(p, n, v) ==
    /\ Alive
    /\ pc[p] = "done"
    /\ calls < MaxCalls
    /\ calls' = calls + 1
    /\ op' = [op EXCEPT ![p] = "update"]
    /\ loc' = [loc EXCEPT ![p] = [NoLoc EXCEPT !.name = n, !.val = v]]
    /\ pc' = [pc EXCEPT ![p] = "uv_get"]
    /\ res' = [res EXCEPT ![p] = "none"]
    /\ UNCHANGED <<storeVars, sockVars, target, hs, hsComplete, readerVars, wire, store0,
                   hist, codec, inbound>>

\* a call of Create(e)
StartCreate(p, e) ==
    /\ Alive
    /\ pc[p] = "done"
    /\ calls < MaxCalls
    /\ calls' = calls + 1
    /\ op' = [op EXCEPT ![p] = "create"]
    /\ loc' = [loc EXCEPT ![p] = e]
    /\ pc' = [pc EXCEPT ![p] = "getconn"]
    /\ res' = [res EXCEPT ![p] = "none"]
    /\ UNCHANGED <<storeVars, sockVars, target, hs, hsComplete, readerVars, wire, store0,
                   hist, codec, inbound>>

\* UpdateValue, lines 49-57: getStore, then store.GetIDSeq(name) in one View
UvGetIDSeq(p) ==
    /\ Alive
    /\ pc[p] = "uv_get"
    /\ userStore \/ storeMu = "free"
    /\ memoryStore' = IF ~userStore /\ memoryStore = "nil" THEN "open" ELSE memoryStore
    /\ LET r == StoreGetIDSeq(store, loc[p].name) IN
       IF (userStore \/ memoryStore # "closed") /\ r.ok
       THEN /\ loc' = [loc EXCEPT ![p].id = r.id, ![p].seq = r.seq]
            /\ pc' = [pc EXCEPT ![p] = "uv_put"]
            /\ UNCHANGED <<op, target, res>>
       ELSE Returns(p, "err")
    /\ UNCHANGED <<store, userStore, storeMu, sockVars, hs, hsComplete, readerVars, wire,
                   calls, store0, hist, codec, inbound>>

\* UpdateValue, lines 59-61: store.UpdateValue(id, seq+1, value) in one Update
UvPut(p) ==
    /\ Alive
    /\ pc[p] = "uv_put"
    /\ IF StoreUsable
       THEN /\ store' = StoreUpdateValue(store, loc[p].id, loc[p].seq + 1, loc[p].val)
            /\ pc' = [pc EXCEPT ![p] = "getconn"]
            /\ UNCHANGED <<op, target, res, loc>>
       ELSE /\ Returns(p, "err")
            /\ UNCHANGED store
    /\ UNCHANGED <<userStore, memoryStore, storeMu, sockVars, hs, hsComplete, readerVars,
                   wire, calls, store0, hist, codec, inbound>>

\* the message-type byte: ntMessageType.Encode on the conn getConn returned.
\* Ping (lines 38-43) is done after it; Create (line 117) goes on to the body
WriteType(p) ==
    /\ Alive
    /\ pc[p] = "write_type"
    /\ \/ /\ MayWrite(target[p])
          /\ IF op[p] = "ping"
             THEN Returns(p, "ok")
             ELSE /\ pc' = [pc EXCEPT ![p] = "write_body"]
                  /\ UNCHANGED <<res, op, target, loc>>
       \/ /\ MayFailWrite(target[p])
          /\ Returns(p, "err")
    /\ UNCHANGED <<storeVars, sockVars, hs, hsComplete, readerVars>>
    /\ UNCHANGED <<wire, calls, store0, hist, codec, inbound>>

\* writeEntryUpdate, lines 617-621: id and sequence number narrowed to uint16
writeEntryUpdate(id, seq, v) ==
    [kind |-> "update", name |-> "", id |-> id % 65536, seq |-> seq % 65536,
     opt |-> FALSE, val |-> v]

\* a Create that sends the id of the entry it was given
Frame_OwnId(p) ==
    IF op[p] = "update"
    THEN writeEntryUpdate(loc[p].id, loc[p].seq + 1, loc[p].val)
    ELSE [kind |-> "assign", name |-> loc[p].name, id |-> loc[p].id,
          seq |-> loc[p].seq, opt |-> loc[p].opt, val |-> loc[p].val]
\* the frame a caller's operation writes: UpdateValue, line 68, passes id and
\* seq+1; Create, line 117, passes its entry
Frame(p) ==
    IF op[p] = "update"
    THEN writeEntryUpdate(loc[p].id, loc[p].seq + 1, loc[p].val)
    ELSE LET a == writeEntryAssignment(loc[p])
         IN [kind |-> "assign", name |-> a.name, id |-> a.id, seq |-> a.seq,
             opt |-> a.opt, val |-> a.val]

\* writeEntryAssignment, lines 603-609, or writeEntryUpdate, lines 623-625: the
\* body of the frame
WriteBody(p) ==
    /\ Alive
    /\ pc[p] = "write_body"
    /\ \/ /\ MayWrite(target[p])
          /\ wire' = IF loc[p] = NoLoc THEN wire ELSE Append(wire, Frame(p))
          /\ Returns(p, "ok")
       \/ /\ MayFailWrite(target[p])
          /\ UNCHANGED wire
          /\ Returns(p, "err")
    /\ UNCHANGED <<storeVars, sockVars, hs, hsComplete, readerVars, calls, store0, hist, codec, inbound>>

\* Close, lines 166-170: storeMu, then the in-memory db is closed
CloseStore(p) ==
    /\ Alive
    /\ pc[p] = "close_store"
    /\ storeMu = "free"
    /\ storeMu' = p
    /\ memoryStore' = IF memoryStore = "open" THEN "closed" ELSE memoryStore
    /\ pc' = [pc EXCEPT ![p] = "close_conn"]
    /\ UNCHANGED <<store, userStore, sockVars, op, target, res, hs, hsComplete, readerVars>>
    /\ UNCHANGED <<loc, wire, calls, store0, hist, codec, inbound>>

\* Close, lines 172-180: connMu, conn.Close(), c.conn = nil, both mutexes released.
\* A socket closed here answers every later call with the closed-connection
\* error, whatever the server did to it before.
CloseConn(p) ==
    /\ Alive
    /\ pc[p] = "close_conn"
    /\ connMu = "free"
    /\ closed' = IF conn # 0 THEN closed \cup {conn} ELSE closed
    /\ conn' = 0
    /\ storeMu' = "free"
    /\ peerGone' = peerGone \ {conn}
    /\ Returns(p, "ok")
    /\ UNCHANGED <<store, userStore, memoryStore, connMu, nextConn, hs, hsComplete,
                   readerVars>>
    /\ UNCHANGED <<wire, calls, store0, hist, codec, inbound>>

\* socket k is held by the client or by one of its tasks
InUse(k) ==
    \/ conn = k
    \/ \E p \in Callers : target[p] = k
    \/ \E r \in ConnIds : rtarget[r] = k

\* the server closes or resets a socket the client still uses
PeerClose(k) ==
    /\ Alive
    /\ InUse(k)
    /\ k \notin peerGone \cup closed
    /\ peerGone' = peerGone \cup {k}
    /\ UNCHANGED <<storeVars, conn, connMu, nextConn, closed, callVars, hs, hsComplete,
                   readerVars>>
    /\ UNCHANGED <<loc, wire, calls, store0, hist, codec, inbound>>

(***************************************************************************)
(* The reader goroutine of getConn (lines 222-227): listen, handleResponse *)
(* and the final c.conn = nil. The reader spawned for socket k is reader k.*)
(***************************************************************************)
\* listen, lines 349-351: c.conn is read without the mutex
Listen(k) ==
    /\ Alive
    /\ rpc[k] = "check"
    /\ rpc' = [rpc EXCEPT ![k] = IF conn = 0 THEN "exit" ELSE "hr"]
    /\ UNCHANGED <<storeVars, sockVars, callVars, hs, hsComplete, rtarget, rmsg>>
    /\ UNCHANGED <<loc, wire, calls, store0, hist, codec, inbound>>

\* handleResponse, line 373: messageType.Decode(c.conn) starts a Read on whatever
\* c.conn holds now; a nil c.conn panics
ReadType(k) ==
    /\ Alive
    /\ rpc[k] = "hr"
    /\ IF conn = 0
       THEN /\ rpc' = [rpc EXCEPT ![k] = "panic"]
            /\ UNCHANGED rtarget
       ELSE /\ rpc' = [rpc EXCEPT ![k] = "read"]
            /\ rtarget' = [rtarget EXCEPT ![k] = conn]
    /\ UNCHANGED <<storeVars, sockVars, callVars, hs, hsComplete, rmsg>>
    /\ UNCHANGED <<loc, wire, calls, store0, hist, codec, inbound>>

\* the kinds of message a server sends in steady state
MsgKinds == {"keepalive", "assign", "update", "flags", "delete", "clear", "clearbad",
             "unknown"}

\* the kinds whose frame is the type byte alone, or is not read at all
BodylessKinds == {"keepalive", "unknown"}

\* listen, lines 353-364, on the result of line 373 (io.EOF ends the loop, any
\* other error is logged and the loop goes on), and handleResponse, lines 377-383
\* and 454-455: getStore, then the switch for the messages without a body
GotType(k, K) ==
    /\ Alive
    /\ rpc[k] = "read"
    /\ LET t == rtarget[k] IN
       \/ /\ t \in closed
          /\ rpc' = [rpc EXCEPT ![k] = "check"]
          /\ UNCHANGED <<rmsg, memoryStore>>
       \/ /\ t \notin closed
          /\ t \in peerGone
          /\ rpc' = [rpc EXCEPT ![k] = "exit"]
          /\ UNCHANGED <<rmsg, memoryStore>>
       \/ /\ t \notin closed \cup peerGone
          /\ userStore \/ storeMu = "free"
          /\ memoryStore' = IF ~userStore /\ memoryStore = "nil" THEN "open"
                            ELSE memoryStore
          /\ \E m \in K :
                IF m \in BodylessKinds
                THEN /\ rpc' = [rpc EXCEPT ![k] = "check"]
                     /\ UNCHANGED rmsg
                ELSE /\ rpc' = [rpc EXCEPT ![k] = "body"]
                     /\ rmsg' = [rmsg EXCEPT ![k] = m]
    /\ rtarget' = [rtarget EXCEPT ![k] = 0]
    /\ UNCHANGED <<store, userStore, storeMu, sockVars, callVars, hs, hsComplete>>
    /\ UNCHANGED <<loc, wire, calls, store0, hist, codec, inbound>>

\* the store operation of each case of handleResponse's switch (lines 384-453),
\* on a decoded body carrying the fields of entry a
Apply(s, m, a) ==
    CASE m = "assign" -> [ok |-> TRUE, s |-> StoreCreate(s, entryFromAssignment(a))]
      [] m = "update" -> [ok |-> TRUE, s |-> StoreUpdateValue(s, a.id, a.seq, a.val)]
      [] m = "flags"  -> [ok |-> TRUE, s |-> StoreUpdateOptions(s, a.id, a.opt)]
      [] m = "delete" -> StoreDelete(s, a.id)
      [] m = "clear"  -> [ok |-> TRUE, s |-> StoreClear(s)]
      [] OTHER        -> [ok |-> TRUE, s |-> s]

\* ntClearAllEntries.Decode (message.go, lines 400-410): 6 bytes are read, then
\* binary.BigEndian.Uint64 is applied to buf[2:6]; Uint64 indexes b[7], so on a
\* slice shorter than 8 bytes it panics
ntClearAllEntriesDecode == IF 6 - 2 >= 8 THEN "ok" ELSE "panic"

\* the Decode call of a message body: "ok", or "panic"
DecodeBody(m) == IF m \in {"clear", "clearbad"} THEN ntClearAllEntriesDecode ELSE "ok"

\* handleResponse, lines 384-453: the body is decoded from whatever c.conn holds
\* now (nil panics), then applied to the store. An error is returned to listen.
Body(k, E) ==
    /\ Alive
    /\ rpc[k] = "body"
    /\ IF conn = 0
       THEN /\ rpc' = [rpc EXCEPT ![k] = "panic"]
            /\ rmsg' = [rmsg EXCEPT ![k] = "none"]
            /\ UNCHANGED store
       ELSE \/ \* read error on a closed or reset socket, short read, invalid
               \* boolean byte, unknown entry type: an error that is not io.EOF
               /\ rpc' = [rpc EXCEPT ![k] = "ret"]
               /\ rmsg' = [rmsg EXCEPT ![k] = "err"]
               /\ UNCHANGED store
            \/ \* end of stream before the first byte of the body: io.EOF
               /\ conn \in peerGone
               /\ conn \notin closed
               /\ rpc' = [rpc EXCEPT ![k] = "ret"]
               /\ rmsg' = [rmsg EXCEPT ![k] = "eof"]
               /\ UNCHANGED store
            \/ /\ conn \notin closed \cup peerGone
               /\ rmsg' = [rmsg EXCEPT ![k] = "none"]
               /\ IF DecodeBody(rmsg[k]) = "panic"
                  THEN /\ rpc' = [rpc EXCEPT ![k] = "panic"]
                       /\ UNCHANGED store
                  ELSE /\ rpc' = [rpc EXCEPT ![k] = "check"]
                       /\ \E a \in E :
                             store' = IF StoreUsable THEN Apply(store, rmsg[k], a).s
                                      ELSE store
    /\ UNCHANGED <<userStore, memoryStore, storeMu, sockVars, callVars, hs, hsComplete,
                   rtarget>>
    /\ UNCHANGED <<loc, wire, calls, store0, hist, codec, inbound>>

\* listen, lines 353-364, on an error of handleResponse's body: io.EOF ends the
\* loop, any other error is logged and the loop goes on
ListenErr(k) ==
    /\ Alive
    /\ rpc[k] = "ret"
    /\ rpc' = [rpc EXCEPT ![k] = IF rmsg[k] = "eof" THEN "exit" ELSE "check"]
    /\ rmsg' = [rmsg EXCEPT ![k] = "none"]
    /\ UNCHANGED <<storeVars, sockVars, callVars, hs, hsComplete, rtarget, loc, wire, calls, store0, hist, codec, inbound>>

\* getConn, lines 224-226: after listen returns, c.conn = nil under connMu
ReaderExit(k) ==
    /\ Alive
    /\ rpc[k] = "exit"
    /\ connMu = "free"
    /\ conn' = 0
    /\ rpc' = [rpc EXCEPT ![k] = "dead"]
    /\ UNCHANGED <<storeVars, connMu, nextConn, closed, peerGone, callVars, hs, hsComplete,
                   rtarget, rmsg>>
    /\ UNCHANGED <<loc, wire, calls, store0, hist, codec, inbound>>

(***************************************************************************)
(* Specifications.                                                         *)
(***************************************************************************)
\* the operations each caller starts
OpsOf(p) == IF p = "c1" THEN {"create", "close"} ELSE {"create"}

Next ==
    \/ \E p \in Callers : \E o \in OpsOf(p) : StartOp(p, o)
    \/ \E p \in Callers : GetConn(p)
    \/ \E p \in Callers : Dial(p)
    \/ \E p \in Callers : HsHello(p)
    \/ \E p \in Callers : HsAwait(p)
    \/ \E p \in Callers : HsRecv(p, {})
    \/ \E p \in Callers : HsSend(p)
    \/ \E p \in Callers : Spawn(p)
    \/ \E p \in Callers : WriteType(p)
    \/ \E p \in Callers : WriteBody(p)
    \/ \E p \in Callers : CloseStore(p)
    \/ \E p \in Callers : CloseConn(p)
    \/ \E k \in ConnIds : PeerClose(k)
    \/ \E k \in ConnIds : Listen(k)
    \/ \E k \in ConnIds : ReadType(k)
    \/ \E k \in ConnIds : GotType(k, BodylessKinds)
    \/ \E k \in ConnIds : ReaderExit(k)

Spec == Init /\ [][Next]_vars

(***************************************************************************)
(* The Store interface called directly: every method of badgerDB that       *)
(* writes, each one badger transaction.                                    *)
(***************************************************************************)
\* calls made on the Store in one behaviour
MaxOps == 2

\* the entries the calls create: each name and id with one of two payloads
StEntries ==
    {Entry(n, i, 0, FALSE, "a") : n \in Names, i \in Ids}
    \cup {Entry(n, i, MaxSeq, TRUE, "b") : n \in Names, i \in Ids}

\* the stores earlier calls can have left: up to two creates on an empty store
StSeeds ==
    {EmptyStore}
    \cup {StoreCreate(EmptyStore, a) : a \in StEntries}
    \cup {StoreCreate(StoreCreate(EmptyStore, a), b) : a, b \in StEntries}

\* the method o of the Store called with the arguments held in a: the error
\* it returns (ok) and the store it leaves (s)
StoreCall(s, o, a) ==
    CASE o = "Create"        -> [ok |-> TRUE, s |-> StoreCreate(s, a)]
      [] o = "UpdateValue"   -> [ok |-> TRUE, s |-> StoreUpdateValue(s, a.id, a.seq, a.val)]
      [] o = "UpdateOptions" -> [ok |-> TRUE, s |-> StoreUpdateOptions(s, a.id, a.opt)]
      [] o = "Delete"        -> StoreDelete(s, a.id)
      [] o = "DeleteByName"  -> StoreDeleteByName(s, a.name)
      [] o = "Clear"         -> [ok |-> TRUE, s |-> StoreClear(s)]

\* one call of a Store method
StoreOp(o, a) ==
    /\ Len(hist) < MaxOps
    /\ store' = StoreCall(store, o, a).s
    /\ hist' = Append(hist, [op |-> o, a |-> a, ok |-> StoreCall(store, o, a).ok])
    /\ UNCHANGED <<userStore, memoryStore, storeMu, sockVars, callVars, hs, hsComplete,
                   readerVars, loc, wire, calls, store0, codec, inbound>>

InitSt ==
    /\ InitIdle
    /\ userStore = TRUE
    /\ store \in StSeeds
    /\ store0 = store
    /\ hist = <<>>

NextSt ==
    \/ \E a \in StEntries : StoreOp("Create", a)
    \/ \E a \in StEntries : StoreOp("UpdateValue", [a EXCEPT !.name = "", !.opt = FALSE])
    \/ \E a \in StEntries : StoreOp("UpdateOptions", [NoLoc EXCEPT !.id = a.id, !.opt = a.opt])
    \/ \E i \in Ids : StoreOp("Delete", [NoLoc EXCEPT !.id = i])
    \/ \E n \in Names : StoreOp("DeleteByName", [NoLoc EXCEPT !.name = n])
    \/ StoreOp("Clear", NoLoc)

SpecSt == InitSt /\ [][NextSt]_vars

\* the store before the i-th call of hist (after the last one, for i = Len(hist) + 1)
RECURSIVE StoreBefore(_)
StoreBefore(i) ==
    IF i <= 1 THEN store0
    ELSE StoreCall(StoreBefore(i - 1), hist[i - 1].op, hist[i - 1].a).s

(***************************************************************************)
(* The codec on its own: a value is encoded into a buffer, or bytes arrive  *)
(* from the wire, and the buffer is decoded.                               *)
(***************************************************************************)
\* continuation bytes before the last byte of a length prefix taken from the wire
MaxGroups == 11

\* the uint64 values encoded: every power of two, every 2^k - 1, and two others
UlebInputs ==
    {Pow2(k) : k \in 0..(Width - 1)} \cup {Ones(k) : k \in 0..Width}
    \cup {U64(300), U64(624485)}

\* length prefixes a peer can send: k bytes with the high bit set, then one without
WireUlebs ==
    {[i \in 1..(k + 1) |-> IF i <= k THEN c ELSE t] :
        k \in 0..MaxGroups, c \in {128, 129, 255}, t \in {0, 1, 2, 127}}

\* the doubles encoded: +0, -0, 1.0, the smallest subnormal, a NaN of all ones
DoubleInputs ==
    {U64Zero, Pow2(Width - 1), [i \in 1..Width |-> IF i \in 53..62 THEN 1 ELSE 0], Pow2(0),
     Ones(Width)}

\* the byte strings encoded as string and as raw data: lengths on both sides of
\* the one-byte length prefix
BytesInputs == {[i \in 1..n |-> (i * 7) % 256] : n \in {0, 1, 2, 127, 128, 300}}

\* the lengths of the arrays encoded: on both sides of the one-byte count
ArrayLens == {0, 1, 2, 255, 256, 257}

\* the values of each variant that are encoded
ValueInputs(type) ==
    CASE type = "boolean" -> BOOLEAN
      [] type = "double"  -> DoubleInputs
      [] type \in {"string", "raw"} -> BytesInputs
      [] type = "boolean_array" -> {[i \in 1..n |-> i % 3 = 0] : n \in ArrayLens}
      [] type = "double_array"  -> {[i \in 1..n |-> U64(i)] : n \in ArrayLens}
      [] type = "string_array"  -> {[i \in 1..n |-> [j \in 1..(i % 3) |-> (i + j) % 256]] :
                                      n \in ArrayLens}

\* the Encode method of the type kind names, on value v: the bytes written
EncodeOf(kind, v) ==
    CASE kind = "uleb128" -> uleb128Encode(v)
      [] kind \in ScalarTypes -> ntEntryValueEncode(kind, v)

\* the Decode method of the type kind names, on a reader holding bytes
DecodeOf(kind, bytes) ==
    CASE kind = "uleb128" -> uleb128Decode(bytes, 1)
      [] kind \in ScalarTypes -> ntEntryValueDecode(kind, bytes, 1)

\* x.Encode(w) on a bytes.Buffer: buf is what was written, nw the count returned
CodecEncode(kind, v) ==
    /\ codec.st = "idle"
    /\ codec' = [NoCodec EXCEPT !.st = "encoded", !.kind = kind, !.v = v,
                                !.buf = EncodeOf(kind, v), !.nw = Len(EncodeOf(kind, v))]
    /\ UNCHANGED <<storeVars, sockVars, callVars, hs, hsComplete, readerVars, loc, wire,
                   calls, store0, hist, inbound>>

\* bytes of a peer are waiting in the reader
CodecRecv(kind, bytes) ==
    /\ codec.st = "idle"
    /\ codec' = [NoCodec EXCEPT !.st = "received", !.kind = kind, !.buf = bytes]
    /\ UNCHANGED <<storeVars, sockVars, callVars, hs, hsComplete, readerVars, loc, wire,
                   calls, store0, hist, inbound>>

\* an array's Encode, up to its loop: the count byte is written
ArrayEncodeStart(kind, v) ==
    /\ codec.st = "idle"
    /\ codec' = [NoCodec EXCEPT !.st = "encoding", !.kind = kind, !.v = v,
                                !.buf = <<CountByte(Len(v))>>, !.nw = 1, !.i = 1]
    /\ UNCHANGED <<storeVars, sockVars, callVars, hs, hsComplete, readerVars, loc, wire,
                   calls, store0, hist, inbound>>

\* one iteration of the loop over ba.V (element i is encoded and counted), or,
\* after the last one, the return
ArrayEncodeStep ==
    /\ codec.st = "encoding"
    /\ IF codec.i > Len(codec.v)
       THEN codec' = [codec EXCEPT !.st = "encoded", !.i = 0]
       ELSE codec' = [codec EXCEPT
                        !.buf = @ \o ElemEncode(codec.kind, codec.v[codec.i]),
                        !.nw = @ + Len(ElemEncode(codec.kind, codec.v[codec.i])),
                        !.i = @ + 1]
    /\ UNCHANGED <<storeVars, sockVars, callVars, hs, hsComplete, readerVars, loc, wire,
                   calls, store0, hist, inbound>>

\* an array's Decode, up to its loop: the count byte is read, arrayLen (i)
\* elements are to follow
ArrayDecodeStart ==
    /\ codec.st = "encoded"
    /\ codec.kind \in ArrayTypes
    /\ IF Len(codec.buf) = 0
       THEN codec' = [codec EXCEPT !.st = "roundtrip"]
       ELSE codec' = [codec EXCEPT !.st = "decoding", !.i = codec.buf[1], !.pos = 2,
                                   !.out = [ok |-> TRUE, v |-> <<>>, n |-> 1]]
    /\ UNCHANGED <<storeVars, sockVars, callVars, hs, hsComplete, readerVars, loc, wire,
                   calls, store0, hist, inbound>>

\* one iteration of the loop over arrayLen (an element is decoded; its error
\* ends the Decode), or, after the last one, the return
ArrayDecodeStep ==
    /\ codec.st = "decoding"
    /\ LET r == ElemDecode(codec.kind, codec.buf, codec.pos) IN
       IF codec.i = 0
       THEN codec' = [codec EXCEPT !.st = "roundtrip", !.pos = 0]
       ELSE IF ~r.ok
       THEN codec' = [codec EXCEPT !.st = "roundtrip", !.pos = 0, !.i = 0,
                                   !.out.ok = FALSE, !.out.n = @ + r.n]
       ELSE codec' = [codec EXCEPT !.i = @ - 1, !.pos = @ + r.n,
                                   !.out.v = Append(@, r.v), !.out.n = @ + r.n]
    /\ UNCHANGED <<storeVars, sockVars, callVars, hs, hsComplete, readerVars, loc, wire,
                   calls, store0, hist, inbound>>

\* x.Decode(rd) on those bytes, for the types without a loop
CodecDecode ==
    /\ codec.st \in {"encoded", "received"}
    /\ codec.kind \notin ArrayTypes
    /\ codec' = [codec EXCEPT !.st = IF codec.st = "encoded" THEN "roundtrip" ELSE "decoded",
                              !.out = DecodeOf(codec.kind, codec.buf)]
    /\ UNCHANGED <<storeVars, sockVars, callVars, hs, hsComplete, readerVars, loc, wire,
                   calls, store0, hist, inbound>>

NextCodec ==
    \/ \E v \in UlebInputs : CodecEncode("uleb128", v)
    \/ \E b \in WireUlebs : CodecRecv("uleb128", b)
    \/ \E t \in ScalarTypes : \E v \in ValueInputs(t) : CodecEncode(t, v)
    \/ \E t \in ArrayTypes : \E v \in ValueInputs(t) : ArrayEncodeStart(t, v)
    \/ ArrayEncodeStep
    \/ ArrayDecodeStart
    \/ ArrayDecodeStep
    \/ CodecDecode

SpecCodec == Init /\ [][NextCodec]_vars

\* The scheduling the Go runtime gives the goroutines of Spec: a goroutine that
\* can run does run (weak fairness of each step of a caller inside a public
\* operation and of each step of a reader), and sync.Mutex hands the lock to a
\* goroutine that keeps waiting for it (strong fairness of the steps that take
\* connMu or storeMu). Nothing is assumed of the caller's decision to start an
\* operation nor of the server's decision to close a socket.
Fairness ==
    /\ \A p \in Callers :
          /\ SF_vars(GetConn(p))
          /\ WF_vars(Dial(p))
          /\ SF_vars(HsHello(p))
          /\ WF_vars(HsAwait(p))
          /\ WF_vars(HsRecv(p, {}))
          /\ WF_vars(HsSend(p))
          /\ WF_vars(Spawn(p))
          /\ WF_vars(WriteType(p))
          /\ WF_vars(WriteBody(p))
          /\ SF_vars(CloseStore(p))
          /\ SF_vars(CloseConn(p))
    /\ \A k \in ConnIds :
          /\ WF_vars(Listen(k))
          /\ WF_vars(ReadType(k))
          /\ SF_vars(GotType(k, BodylessKinds))
          /\ SF_vars(ReaderExit(k))

\* Spec under that scheduling
SpecLive == Init /\ [][Next]_vars /\ Fairness

\* The same scheduling with a server that is free to stay silent: the steps that
\* wait for a message of the server (the handshake's reads, the reader's Read)
\* are fair only once the socket is closed or reset, when the Read returns at
\* once.
LocalFairness ==
    /\ \A p \in Callers :
          /\ SF_vars(GetConn(p))
          /\ WF_vars(Dial(p))
          /\ SF_vars(HsHello(p))
          /\ WF_vars(HsAwait(p) /\ hs.conn \in peerGone)
          /\ WF_vars(HsRecv(p, {}) /\ hs.conn \in peerGone)
          /\ WF_vars(HsSend(p))
          /\ WF_vars(Spawn(p))
          /\ WF_vars(WriteType(p))
          /\ WF_vars(WriteBody(p))
          /\ SF_vars(CloseStore(p))
          /\ SF_vars(CloseConn(p))
    /\ \A k \in ConnIds :
          /\ WF_vars(Listen(k))
          /\ WF_vars(ReadType(k))
          /\ WF_vars(GotType(k, BodylessKinds) /\ rtarget[k] \in closed \cup peerGone)
          /\ SF_vars(ReaderExit(k))

\* Spec under that scheduling
SpecQuiet == Init /\ [][Next]_vars /\ LocalFairness

\* one caller connects a client whose configured Store holds what an earlier
\* session left, against every server; followed until getConn returns
InitHS ==
    /\ InitCommon
    /\ userStore = TRUE
    /\ store \in SeedStores

NextHS ==
    \/ StartOp("c1", "ping")
    \/ GetConn("c1")
    \/ Dial("c1")
    \/ HsHello("c1")
    \/ HsAwait("c1")
    \/ HsRecv("c1", AllEntries)
    \/ HsSend("c1")
    \/ Spawn("c1")
    \/ WriteType("c1")
    \/ \E k \in ConnIds : PeerClose(k)

SpecHS == InitHS /\ [][NextHS]_vars

\* the entries the bodies of inbound steady-state messages carry
BodyEntries == {e \in AllEntries : e.seq = MaxSeq /\ ~e.opt /\ e.val = "b"}

\* the dispatcher: one caller connects with Ping and keeps pinging, the server
\* sends every kind of message, and may close the connection
NextRd ==
    \/ StartOp("c1", "ping")
    \/ GetConn("c1")
    \/ Dial("c1")
    \/ HsHello("c1")
    \/ HsAwait("c1")
    \/ HsRecv("c1", {})
    \/ HsSend("c1")
    \/ Spawn("c1")
    \/ WriteType("c1")
    \/ \E k \in ConnIds : PeerClose(k)
    \/ \E k \in ConnIds : Listen(k)
    \/ \E k \in ConnIds : ReadType(k)
    \/ \E k \in ConnIds : GotType(k, MsgKinds)
    \/ \E k \in ConnIds : Body(k, BodyEntries)
    \/ \E k \in ConnIds : ListenErr(k)
    \/ \E k \in ConnIds : ReaderExit(k)

SpecRd == Init /\ [][NextRd]_vars

\* the entries a server can put in an entry-assignment: the id field is a
\* uint16, so it can hold any id, 0xFFFF included
AnyIdEntries == {Entry(n, i, MaxSeq, FALSE, "b") : n \in Names, i \in Ids \cup {createID}}

\* one caller connects with Ping and keeps pinging; the server sends
\* assignments with any id, in the handshake and afterwards
NextAs ==
    \/ StartOp("c1", "ping")
    \/ GetConn("c1")
    \/ Dial("c1")
    \/ HsHello("c1")
    \/ HsAwait("c1")
    \/ HsRecv("c1", AnyIdEntries)
    \/ HsSend("c1")
    \/ Spawn("c1")
    \/ WriteType("c1")
    \/ \E k \in ConnIds : Listen(k)
    \/ \E k \in ConnIds : ReadType(k)
    \/ \E k \in ConnIds : GotType(k, {"assign"})
    \/ \E k \in ConnIds : Body(k, AnyIdEntries)
    \/ \E k \in ConnIds : ListenErr(k)

SpecAs == Init /\ [][NextAs]_vars

\* stores holding the entry "x", with a sequence number at either end of uint16
OpSeeds ==
    {EmptyStore}
    \cup {StoreCreate(EmptyStore, Entry("x", i, s, FALSE, "a")) :
             i \in Ids, s \in {0, 65535}}

\* one caller runs UpdateValue calls one after the other, on a client that
\* connects on the first call that gets that far; the server sends assignments
\* in the handshake
NextOp ==
    \/ \E n \in Names, v \in Vals : StartUpdateValue("c1", n, v)
    \/ UvGetIDSeq("c1")
    \/ UvPut("c1")
    \/ GetConn("c1")
    \/ Dial("c1")
    \/ HsHello("c1")
    \/ HsAwait("c1")
    \/ HsRecv("c1", BodyEntries)
    \/ HsSend("c1")
    \/ Spawn("c1")
    \/ WriteType("c1")
    \/ WriteBody("c1")

InitOp ==
    /\ InitCommon
    /\ userStore = TRUE
    /\ store \in OpSeeds

SpecOp == InitOp /\ [][NextOp]_vars

\* one caller runs Create calls one after the other; the server sends
\* assignments in the handshake and afterwards
NextCr ==
    \/ \E e \in BodyEntries : StartCreate("c1", e)
    \/ GetConn("c1")
    \/ Dial("c1")
    \/ HsHello("c1")
    \/ HsAwait("c1")
    \/ HsRecv("c1", BodyEntries)
    \/ HsSend("c1")
    \/ Spawn("c1")
    \/ WriteType("c1")
    \/ WriteBody("c1")
    \/ \E k \in ConnIds : Listen(k)
    \/ \E k \in ConnIds : ReadType(k)
    \/ \E k \in ConnIds : GotType(k, {"assign"})
    \/ \E k \in ConnIds : Body(k, BodyEntries)
    \/ \E k \in ConnIds : ListenErr(k)

SpecCr == InitOp /\ [][NextCr]_vars

\* two callers run UpdateValue calls concurrently; the server sends no entries
NextUV ==
    \/ \E p \in Callers : \E n \in Names, v \in Vals : StartUpdateValue(p, n, v)
    \/ \E p \in Callers : UvGetIDSeq(p)
    \/ \E p \in Callers : UvPut(p)
    \/ \E p \in Callers : GetConn(p)
    \/ \E p \in Callers : Dial(p)
    \/ \E p \in Callers : HsHello(p)
    \/ \E p \in Callers : HsAwait(p)
    \/ \E p \in Callers : HsRecv(p, {})
    \/ \E p \in Callers : HsSend(p)
    \/ \E p \in Callers : Spawn(p)
    \/ \E p \in Callers : WriteType(p)
    \/ \E p \in Callers : WriteBody(p)

SpecUV == InitOp /\ [][NextUV]_vars

\* the entries the bodies of inbound entry-update and entry-delete messages
\* carry: the server is ahead of the client by more than one update
AheadEntries == {Entry(n, i, MaxSeq + 1, FALSE, "b") : n \in Names, i \in Ids}

\* two callers run UpdateValue calls concurrently while the dispatcher processes
\* entry-update and entry-delete messages of the server
NextUVD ==
    \/ NextUV
    \/ \E k \in ConnIds : Listen(k)
    \/ \E k \in ConnIds : ReadType(k)
    \/ \E k \in ConnIds : GotType(k, {"update", "delete"})
    \/ \E k \in ConnIds : Body(k, AheadEntries)
    \/ \E k \in ConnIds : ListenErr(k)

SpecUVD == InitOp /\ [][NextUVD]_vars

TypeOK ==
    /\ conn \in 0..MaxConns
    /\ nextConn \in 0..MaxConns
    /\ connMu \in Callers \cup {"free"}
    /\ storeMu \in Callers \cup {"free"}
    /\ closed \subseteq ConnIds
    /\ peerGone \subseteq ConnIds
    /\ hsComplete \subseteq ConnIds

(***************************************************************************)
(* Claims.                                                                 *)
(***************************************************************************)
\* the handshake of caller p has just returned nil (client-hello-complete written)
HandshakeOk(p) == pc[p] = "spawn" /\ hs.result = "ok"
\* the names of the assignments the client wrote during the handshake
SentNames == {hs.sent[i].name : i \in 1..Len(hs.sent)}
\* how many assignments the client wrote for name n
SentCount(n) == Cardinality({i \in 1..Len(hs.sent) : hs.sent[i].name = n})

\* C1: after a successful handshake the names in the store are exactly the names
\* the server assigned in this handshake together with the local names the client
\* sent as assignments.
C1_KeysetIsServerAndSent ==
    \A p \in Callers :
        HandshakeOk(p) => DOMAIN store.names = hs.serverNames \cup SentNames

C1_Witness ==
    /\ HandshakeOk("c1")
    /\ hs.serverNames = {"x"}
    /\ SentNames = {"y"}

\* C2: in a successful handshake the client writes exactly one assignment, with id
\* 0xFFFF, for every stored name the server did not assign, none for a name the
\* server assigned, and all of them between server-hello-complete and
\* client-hello-complete.
C2_MissingNamesSentOnce ==
    \A p \in Callers :
        /\ pc[p] \in {"hs_hello", "hs_await", "hs_recv"} => hs.sent = <<>>
        /\ HandshakeOk(p) =>
              /\ \A n \in Names :
                    SentCount(n) = IF n \in DOMAIN store.names \ hs.serverNames THEN 1 ELSE 0
              /\ \A i \in 1..Len(hs.sent) : hs.sent[i].id = createID

C2_Witness ==
    /\ HandshakeOk("c1")
    /\ hs.serverNames = {"x"}
    /\ Len(hs.sent) = 1
    /\ hs.sent[1].name = "y"
    /\ hs.sent[1].id = createID

\* the server gave different names different ids in this handshake
DistinctServerIds ==
    \A m, n \in hs.serverNames : m # n => hs.last[m].id # hs.last[n].id

\* C3 (the claim as stated, already for a server that gives different names
\* different ids): after a successful handshake, get(name) of every name the
\* server assigned succeeds and returns the id, sequence number, flags and value
\* of the last assignment received for that name.
C3_GetReturnsLastAssignment ==
    \A p \in Callers :
        (HandshakeOk(p) /\ DistinctServerIds) =>
            \A n \in hs.serverNames :
                /\ StoreGetByName(store, n).ok
                /\ StoreGetByName(store, n).e = entryFromAssignment(hs.last[n])

\* C4 (the claim as stated): when the first message after client-hello is not a
\* server-hello, the operation that triggered the connect returns an error and
\* the connection is not kept as the handle.
C4_BadFirstMessageIsFatal ==
    [][\A p \in Callers :
          (pc[p] = "spawn" /\ hs.first \notin {-1, serverHelloMessageType})
              => (pc'[p] = "done" /\ res'[p] # "ok" /\ conn' = 0)]_vars

\* C5 (the claim as stated): no reader task has a read pending on a socket on
\* which client-hello-complete has not been written.
C5_NoReadBeforeHelloComplete ==
    \A k \in ConnIds : rpc[k] = "read" => rtarget[k] \in hsComplete

\* C6: while the handle is set no socket is dialed, no handshake is started and no
\* reader is started for another socket, and every getConn returns that handle.
C6_ConnectIdempotent ==
    [][conn # 0 =>
          /\ nextConn' = nextConn
          /\ \A p \in Callers : pc[p] # "hs_hello" => pc'[p] # "hs_hello"
          /\ \A k \in ConnIds : (rpc[k] = "none" /\ rpc'[k] # "none") => k = conn
          /\ \A p \in Callers :
                (pc[p] = "getconn" /\ pc'[p] # "getconn")
                    => (pc'[p] = "write_type" /\ target'[p] = conn /\ conn' = conn)]_vars

C6_Witness ==
    /\ nextConn = 1
    /\ conn = 1
    /\ \A p \in Callers : pc[p] = "write_type" /\ target[p] = 1

\* C7 (the claim as stated): at most one caller is inside a message frame (type
\* byte written, body not yet written) on a socket at any time.
C7_WritesSerialised ==
    \A p, q \in Callers :
        (p # q /\ pc[p] = "write_body" /\ pc[q] = "write_body") => target[p] # target[q]

\* C8 (the claim as stated): when a public operation's write fails, the socket it
\* wrote to is no longer the handle when the operation returns.
C8_WriteErrorClearsHandle ==
    [][\A p \in Callers :
          (pc[p] \in {"write_type", "write_body"} /\ res'[p] = "err")
              => conn' # target[p]]_vars

\* C9 (the claim as stated): a reader that exits clears the handle under connMu,
\* and once a reader has exited, an operation that has to connect writes its
\* message only after a dial and a handshake that completed.
C9_ReaderExitForcesFullReconnect ==
    [][/\ \A k \in ConnIds :
             (rpc[k] = "exit" /\ rpc'[k] = "dead") => (connMu = "free" /\ conn' = 0)
       /\ \A p \in Callers :
             ((\E k \in ConnIds : rpc[k] = "dead") /\ pc[p] = "spawn" /\ pc'[p] = "write_type")
                 => (hs.result = "ok" /\ target'[p] = nextConn)]_vars

\* C10 (the claim as stated): a reader only reads from the socket it was spawned
\* for, so no socket has two readers.
C10_SingleReader ==
    /\ \A k \in ConnIds : rpc[k] = "read" => rtarget[k] = k
    /\ \A j, k \in ConnIds :
          (j # k /\ rpc[j] = "read" /\ rpc[k] = "read") => rtarget[j] # rtarget[k]

\* C11 (the claim as stated): when handleResponse returns end-of-stream or a
\* decoding error for a message body, the reader leaves its loop (and then clears
\* the handle).
C11_DecodeErrorEndsReader ==
    [][\A k \in ConnIds :
          (rpc[k] = "ret" /\ rmsg[k] \in {"eof", "err"} /\ rpc'[k] # "ret")
              => rpc'[k] = "exit"]_vars

\* C12 (the claim as stated): when the reader has a whole clear-all-entries
\* message to decode on a live handle, the store becomes empty if the magic is
\* 0xD06CB27A and is unchanged otherwise, and the reader goes on with its loop.
C12_ClearAllOnMagic ==
    [][\A k \in ConnIds :
          (/\ rpc[k] = "body"
           /\ rmsg[k] \in {"clear", "clearbad"}
           /\ conn # 0
           /\ rpc'[k] \notin {"body", "ret"})
              => /\ rpc'[k] = "check"
                 /\ store' = IF rmsg[k] = "clear" THEN EmptyStore ELSE store]_vars

\* C13 (the claim as stated): no task of the client panics.
C13_NoPanic == \A k \in ConnIds : rpc[k] # "panic"

\* C14 (the claim as stated): an UpdateValue(name, v) that returns nil, having
\* found the entry stored as (id, seq), leaves the store holding (id, seq+1, v)
\* for that name and has written exactly one entry-update(id, seq+1, v); an
\* UpdateValue of a name that is not stored returns an error and writes nothing.
\* Sequence numbers are compared modulo 2^16.
C14_UpdateValueEffect ==
    [][\A p \in Callers :
          /\ (pc[p] = "write_body" /\ op[p] = "update" /\ res'[p] = "ok")
                => /\ StoreGetByName(store', loc[p].name).ok
                   /\ StoreGetByName(store', loc[p].name).e.id = loc[p].id
                   /\ StoreGetByName(store', loc[p].name).e.seq % 65536
                         = (loc[p].seq + 1) % 65536
                   /\ StoreGetByName(store', loc[p].name).e.val = loc[p].val
                   /\ wire' = Append(wire, [kind |-> "update", name |-> "",
                                             id |-> loc[p].id,
                                             seq |-> (loc[p].seq + 1) % 65536,
                                             opt |-> FALSE, val |-> loc[p].val])
          /\ (pc[p] = "uv_get" /\ loc[p].name \notin DOMAIN store.names
                  /\ pc'[p] # "uv_get")
                => (res'[p] = "err" /\ wire' = wire)]_vars

\* C15 (the claim as stated): every stored sequence number is in 0..0xFFFF.
C15_SeqIs16Bit ==
    \A i \in DOMAIN store.seq : store.seq[i] \in 0..65535

C16_ConcurrentUpdatesAdvanceSeq ==
    (/\ Len(wire) = 2
     /\ wire[1].kind = "update"
     /\ wire[2].kind = "update"
     /\ wire[1].id = wire[2].id)
        => /\ wire[1].seq # wire[2].seq
           /\ \/ wire[2].seq = (wire[1].seq + 1) % 65536
              \/ wire[1].seq = (wire[2].seq + 1) % 65536

\* new is not behind old in 16-bit serial-number order
SeqNotBehind(old, new) == ((new - old) % 65536) < 32768

\* C17 (the claim as stated): a local UpdateValue's store write and the
\* dispatcher's handling of an inbound entry-update never move the stored
\* sequence number of an id backwards (modulo 2^16).
C17_SeqMonotonic ==
    [][(\/ \E p \in Callers : pc[p] = "uv_put" /\ pc'[p] # "uv_put"
        \/ \E k \in ConnIds : rpc[k] = "body" /\ rmsg[k] = "update" /\ rpc'[k] # "body")
          => \A i \in DOMAIN store.seq \cap DOMAIN store'.seq :
                SeqNotBehind(store.seq[i], store'.seq[i])]_vars

\* C18 (the claim as stated): from the moment UpdateValue(name, v) has written
\* the store, and so when it returns, a read of name observes value v with the
\* incremented sequence number, until something is written after it.
C18_ReadObservesLocalUpdate ==
    [][\A p \in Callers :
          (pc[p] = "uv_put" /\ pc'[p] = "getconn")
             => /\ StoreGetByName(store', loc[p].name).ok
                /\ StoreGetByName(store', loc[p].name).e.val = loc[p].val
                /\ StoreGetByName(store', loc[p].name).e.seq = loc[p].seq + 1]_vars

\* C20 (the claim as stated, first part): once Close has closed a connection
\* and returned, the reader goroutine started for that connection eventually
\* ends (or the process has ended).
C20_ClosedReaderExits ==
    \A k \in ConnIds : (k \in closed) ~> (rpc[k] = "dead" \/ ~Alive)

\* C21 (the claim as stated): a Close that is called eventually returns, and a
\* caller that is inside a public operation on the connection (in the handshake,
\* waiting for the server, or writing to the socket) while Close is running
\* eventually gets its operation's result.
C21_CloseCancelsOutstandingWork ==
    /\ \A p \in Callers : (op[p] = "close") ~> (op[p] # "close" \/ ~Alive)
    /\ \A p, q \in Callers :
          (op[p] = "close" /\ pc[q] \in {"hs_await", "hs_recv", "write_type", "write_body"})
             ~> (pc[q] = "done" \/ ~Alive)

\* C22 (the claim as stated): after any sequence of Store calls, every name of
\* GetNames has an id, the id-to-name record of that id is that name, and no two
\* names have the same id.
C22_IndexBijection ==
    LET names == StoreGetNames(store) IN
    \A k \in 1..Len(names) :
        /\ getID(store, names[k]).ok
        /\ getID(store, names[k]).id \in DOMAIN store.ids
        /\ store.ids[getID(store, names[k]).id] = names[k]
        /\ \A j \in 1..Len(names) :
              getID(store, names[j]).id = getID(store, names[k]).id => j = k

\* the last two calls of hist are the methods o1 and o2
LastTwo(o1, o2) ==
    /\ Len(hist) >= 2
    /\ hist[Len(hist) - 1].op = o1
    /\ hist[Len(hist)].op = o2

\* C23: after Create(e) followed by Create(e2) with e2.name = e.name, the name is
\* looked up as exactly e2 (id, sequence number, options, value), and when the ids
\* differ no value, options, sequence or id-to-name record is left for e.id.
C23_CreateReplacesSameName ==
    LET e  == hist[Len(hist) - 1].a
        e2 == hist[Len(hist)].a
    IN (LastTwo("Create", "Create") /\ e.name = e2.name)
          => /\ StoreGetByName(store, e2.name) = [ok |-> TRUE, e |-> e2]
             /\ e2.name \in {StoreGetNames(store)[k] : k \in 1..Len(StoreGetNames(store))}
             /\ e.id # e2.id
                   => e.id \notin DOMAIN store.val \cup DOMAIN store.opt
                                  \cup DOMAIN store.seq \cup DOMAIN store.ids

\* a name created with id 0 and the first payload was created again with id 1 and
\* the second payload
C23_Witness ==
    /\ LastTwo("Create", "Create")
    /\ hist[Len(hist) - 1].a = Entry("x", 0, 0, FALSE, "a")
    /\ hist[Len(hist)].a = Entry("x", 1, MaxSeq, TRUE, "b")
    /\ store.names["x"] = 1
    /\ 0 \notin DOMAIN store.val

\* the names of GetNames, as a set
NameSet(s) == {StoreGetNames(s)[k] : k \in 1..Len(StoreGetNames(s))}

\* C24 (the claim as stated): after Create(e) followed by Delete(e.id), GetNames
\* returns what it returned before the Create.
C24_CreateDeleteKeepsNames ==
    (LastTwo("Create", "Delete") /\ hist[Len(hist)].a.id = hist[Len(hist) - 1].a.id)
       => StoreGetNames(store) = StoreGetNames(StoreBefore(Len(hist) - 1))

\* C24 (amended): after Create(e) followed by Delete(e.id), GetNames returns what
\* it returned before the Create without e.name: the same names when the store
\* did not hold e.name, one name fewer when it did.
C24_CreateDeleteRemovesName ==
    (LastTwo("Create", "Delete") /\ hist[Len(hist)].a.id = hist[Len(hist) - 1].a.id)
       => /\ hist[Len(hist)].ok
          /\ NameSet(store) = NameSet(StoreBefore(Len(hist) - 1)) \ {hist[Len(hist) - 1].a.name}

\* a store holding y only, on which x was created with id 1 and id 1 deleted
C24_Witness ==
    /\ LastTwo("Create", "Delete")
    /\ hist[Len(hist) - 1].a.name = "x"
    /\ hist[Len(hist) - 1].a.id = 1
    /\ hist[Len(hist)].a.id = 1
    /\ NameSet(StoreBefore(Len(hist) - 1)) = {"y"}
    /\ NameSet(store) = {"y"}

\* C25 (the claim as stated): an UpdateValue or UpdateOptions call with an id
\* that has no entry returns an error and leaves the store as it was.
C25_UpdateOfAbsentIdFails ==
    LET c == hist[Len(hist)]
        before == StoreBefore(Len(hist))
    IN (/\ Len(hist) >= 1
        /\ c.op \in {"UpdateValue", "UpdateOptions"}
        /\ c.a.id \notin DOMAIN before.ids)
          => /\ ~c.ok
             /\ store = before

\* C26 (the claim as stated): Delete(id) of an id that has an entry removes the
\* five records of that id and its name and leaves the lookup of every other name
\* as it was; Delete(id) of an id without an entry returns an error and changes
\* nothing.
C26_DeleteRemovesFiveRecords ==
    LET c == hist[Len(hist)]
        before == StoreBefore(Len(hist))
    IN (Len(hist) >= 1 /\ c.op = "Delete")
          => IF c.a.id \in DOMAIN before.ids
             THEN /\ c.ok
                  /\ c.a.id \notin DOMAIN store.val \cup DOMAIN store.opt
                                     \cup DOMAIN store.seq \cup DOMAIN store.ids
                  /\ before.ids[c.a.id] \notin DOMAIN store.names
                  /\ \A n \in Names \ {before.ids[c.a.id]} :
                        StoreGetByName(store, n) = StoreGetByName(before, n)
             ELSE /\ ~c.ok
                  /\ store = before

\* C27 (the claim as stated): whatever entry-assignments the server sends, in the
\* handshake or afterwards, no record of the store is kept under id 0xFFFF and no
\* name maps to it.
C27_NoSentinelInStore ==
    /\ createID \notin DOMAIN store.val \cup DOMAIN store.opt \cup DOMAIN store.seq
                        \cup DOMAIN store.ids
    /\ \A n \in DOMAIN store.names : store.names[n] # createID

\* C28: decoding the bytes uleb128.Encode wrote for n yields n without error and
\* reads exactly the bytes written, and for n < 128 those bytes are the one byte n.
C28_UlebRoundTrip ==
    (codec.st = "roundtrip" /\ codec.kind = "uleb128")
       => /\ codec.out.ok
          /\ codec.out.v = codec.v
          /\ codec.out.n = codec.nw
          /\ codec.nw = Len(codec.buf)
          /\ (FitsInt(codec.v) /\ ToInt(codec.v) < 128) => codec.buf = <<ToInt(codec.v)>>

\* 2^64 - 1 went through Encode and Decode, in ten bytes
C28_Witness ==
    /\ codec.st = "roundtrip"
    /\ codec.kind = "uleb128"
    /\ codec.v = Ones(Width)
    /\ Len(codec.buf) = 10
    /\ codec.out.v = Ones(Width)

\* the bytes of a length prefix encode a value of 2^64 or more: a byte follows
\* the tenth, or the tenth carries more than bit 63
Overflows(bytes) == Len(bytes) > 10 \/ (Len(bytes) = 10 /\ bytes[10] % 128 > 1)

\* C29 (the claim as stated): uleb128.Decode returns an error for every input
\* whose value does not fit in 64 bits.
C29_UlebRejectsOverflow ==
    (codec.st = "decoded" /\ codec.kind = "uleb128" /\ Overflows(codec.buf))
       => ~codec.out.ok

\* C30 (the claim as stated): for every variant and every value of it, decoding
\* the bytes ntEntryValue.Encode wrote, with the same type, succeeds, yields the
\* value, and reads as many bytes as were written.
C30_EntryValueRoundTrip ==
    (codec.st = "roundtrip" /\ codec.kind \in EntryTypes)
       => /\ codec.out.ok
          /\ codec.out.v = codec.v
          /\ codec.out.n = codec.nw

\* C31 (the claim as stated): an array Encode that returned without error was
\* given at most 255 elements, and its count byte is the number of elements it
\* wrote; an array of more than 255 elements is an error and writes no such frame.
C31_ArrayTooLongIsError ==
    (codec.st = "encoded" /\ codec.kind \in ArrayTypes)
       => /\ Len(codec.v) <= 255
          /\ codec.buf[1] = Len(codec.v)

(***************************************************************************)
(* The inbound byte stream: the server's frames as bytes, and handleResponse *)
(* decoding them one after the other from the socket.                      *)
(***************************************************************************)
\* frames the server writes in one burst
MaxFrames == 2

\* the entry type byte of a frame (type ntEntryType), as the variant it selects
remoteProcedureCallDefinitionEntryType == 32
ntEntryTypeOf(b) ==
    CASE b = 0 -> "boolean"       [] b = 1 -> "double"        [] b = 2 -> "string"
      [] b = 3 -> "raw"           [] b = 16 -> "boolean_array" [] b = 17 -> "double_array"
      [] b = 18 -> "string_array" [] OTHER -> "unknown"

\* binary.BigEndian.Uint16 and PutUint16
Uint16(bytes, pos) == bytes[pos] * 256 + bytes[pos + 1]
PutUint16(n) == <<(n \div 256) % 256, n % 256>>

\* string(raw.V): the names of the model are the one-byte strings "x" and "y"
GoString(bytes) ==
    IF bytes = <<120>> THEN "x" ELSE IF bytes = <<121>> THEN "y" ELSE bytes
\* []byte(str.V)
GoBytes(str) == IF str = "x" THEN <<120>> ELSE IF str = "y" THEN <<121>> ELSE str

\* ntEntryFlags.Decode: one byte, Persist is its low bit
ntEntryFlagsDecode(bytes, pos) ==
    IF pos > Len(bytes) THEN [ok |-> FALSE, v |-> FALSE, n |-> 0]
    ELSE [ok |-> TRUE, v |-> bytes[pos] % 2 = 1, n |-> 1]

\* the loop of an array's Decode: left elements are still to be read, r is what
\* the element's Decode returned
RECURSIVE ntArrayDecodeLoop(_, _, _, _, _, _)
RECURSIVE ntArrayDecodeElem(_, _, _, _, _, _, _)
ntArrayDecodeElem(kind, bytes, pos, left, acc, total, r) ==
    IF ~r.ok THEN [ok |-> FALSE, v |-> acc, n |-> total + r.n]
    ELSE ntArrayDecodeLoop(kind, bytes, pos + r.n, left - 1, Append(acc, r.v), total + r.n)
ntArrayDecodeLoop(kind, bytes, pos, left, acc, total) ==
    IF left = 0 THEN [ok |-> TRUE, v |-> acc, n |-> total]
    ELSE ntArrayDecodeElem(kind, bytes, pos, left, acc, total, ElemDecode(kind, bytes, pos))
\* ntBooleanArray.Decode, ntDoubleArray.Decode, ntStringArray.Decode
ntArrayDecode(kind, bytes, pos) ==
    IF pos > Len(bytes) THEN [ok |-> FALSE, v |-> <<>>, n |-> 0]
    ELSE ntArrayDecodeLoop(kind, bytes, pos + 1, bytes[pos], <<>>, 1)

\* ntEntryValue.Decode with the Type a frame carried: any type but the seven
\* variants is the default case, an error that reads nothing
ntEntryValueDecodeTyped(b, bytes, pos) ==
    CASE ntEntryTypeOf(b) \in ScalarTypes -> ntEntryValueDecode(ntEntryTypeOf(b), bytes, pos)
      [] ntEntryTypeOf(b) \in ArrayTypes  -> ntArrayDecode(ntEntryTypeOf(b), bytes, pos)
      [] OTHER                             -> [ok |-> FALSE, v |-> 0, n |-> 0]

\* the bytes a reader at pos still holds
Have(bytes, pos) == IF pos > Len(bytes) THEN 0 ELSE Len(bytes) - pos + 1

\* a Decode that failed: the bytes it read, no entry
DecodeErr(n) == [ok |-> FALSE, n |-> n, e |-> NoLoc]

\* ntEntryAssignment.Decode, lines 221-233, at the five bytes p that follow the
\* name: fl and val are what the Decode of the flags and of the value returned
AssignmentTail(bytes, p, name, fl, val) ==
    IF ~fl.ok THEN DecodeErr(name.n + 5)
    ELSE IF ~val.ok THEN DecodeErr(name.n + 6 + val.n)
    ELSE [ok |-> TRUE, n |-> name.n + 6 + val.n,
          e |-> Entry(GoString(name.v), Uint16(bytes, p + 1), Uint16(bytes, p + 3),
                      fl.v, val.v)]
\* ntEntryAssignment.Decode, lines 209-219: name is what the name's Decode returned
AssignmentHead(bytes, p, name) ==
    IF ~name.ok THEN DecodeErr(name.n)
    ELSE IF Have(bytes, p) < 5 THEN DecodeErr(name.n + Have(bytes, p))
    ELSE AssignmentTail(bytes, p, name, ntEntryFlagsDecode(bytes, p + 5),
                        ntEntryValueDecodeTyped(bytes[p], bytes, p + 6))
\* the position after a Decode that returned r
After(pos, r) == pos + r.n
\* ntEntryAssignment.Decode: name, then type, id and sequence number in five
\* bytes, then the flags, then the value
AssignmentNamed(bytes, pos, name) == AssignmentHead(bytes, After(pos, name), name)
ntEntryAssignmentDecode(bytes, pos) == AssignmentNamed(bytes, pos, ntStringDecode(bytes, pos))

\* ntEntryUpdate.Decode, lines 293-298: val is what the value's Decode returned
UpdateTail(bytes, pos, val) ==
    IF ~val.ok THEN DecodeErr(5 + val.n)
    ELSE [ok |-> TRUE, n |-> 5 + val.n,
          e |-> Entry("", Uint16(bytes, pos), Uint16(bytes, pos + 2), FALSE, val.v)]
\* ntEntryUpdate.Decode: id, sequence number and type in five bytes, then the value
ntEntryUpdateDecode(bytes, pos) ==
    IF Have(bytes, pos) < 5 THEN DecodeErr(Have(bytes, pos))
    ELSE UpdateTail(bytes, pos, ntEntryValueDecodeTyped(bytes[pos + 4], bytes, pos + 5))

\* ntEntryFlagsUpdate.Decode: the id in two bytes, then the flags
ntEntryFlagsUpdateDecode(bytes, pos) ==
    IF Have(bytes, pos) < 3 THEN DecodeErr(Have(bytes, pos))
    ELSE [ok |-> TRUE, n |-> 3,
          e |-> Entry("", Uint16(bytes, pos), 0, ntEntryFlagsDecode(bytes, pos + 2).v, "")]

\* ntEntryDelete.Decode: the id in two bytes
ntEntryDeleteDecode(bytes, pos) ==
    IF Have(bytes, pos) < 2 THEN DecodeErr(Have(bytes, pos))
    ELSE [ok |-> TRUE, n |-> 2, e |-> Entry("", Uint16(bytes, pos), 0, FALSE, "")]

\* the kind of message a type byte selects in handleResponse's switch
KindOfType(t) ==
    CASE t = keepAliveMessageType        -> "keepalive"
      [] t = entryAssignmentMessageType  -> "assign"
      [] t = entryUpdateMessageType      -> "update"
      [] t = entryFlagsUpdateMessageType -> "flags"
      [] t = entryDeleteMessageType      -> "delete"
      [] t = clearAllEntriesMessageType  -> "clear"
      [] OTHER                           -> "unknown"

\* the Decode call of handleResponse's case for message kind m
DecodeFrameBody(m, bytes, pos) ==
    CASE m = "assign" -> ntEntryAssignmentDecode(bytes, pos)
      [] m = "update" -> ntEntryUpdateDecode(bytes, pos)
      [] m = "flags"  -> ntEntryFlagsUpdateDecode(bytes, pos)
      [] m = "delete" -> ntEntryDeleteDecode(bytes, pos)
      [] OTHER        -> [ok |-> TRUE, n |-> 0, e |-> NoLoc]

\* handleResponse, the store call of a case: n bytes were read, a is what the
\* store operation returned
Applied(n, a) == [n |-> n, s |-> a.s, ret |-> IF a.ok THEN "nil" ELSE "err"]
\* handleResponse, lines 382-458: the switch on the message kind m, d is what the
\* Decode of the body returned
Dispatch(s, m, d) ==
    IF m = "unknown" THEN [n |-> 1, s |-> s, ret |-> "err"]
    ELSE IF DecodeBody(m) = "panic" THEN [n |-> 1, s |-> s, ret |-> "panic"]
    ELSE IF ~d.ok THEN [n |-> 1 + d.n, s |-> s, ret |-> "err"]
    ELSE Applied(1 + d.n, Apply(s, m, d.e))
\* one call of handleResponse on the bytes from pos on, with store s: the bytes
\* it read (n), the store it left, and what it returned ("nil", "err" or "panic")
handleResponse(bytes, pos, s) ==
    Dispatch(s, KindOfType(bytes[pos]), DecodeFrameBody(KindOfType(bytes[pos]), bytes, pos + 1))

\* a Decode that returned d on the bytes received fails for want of bytes: with
\* one more byte it returns d1
FailsShort(d, d1) == ~d.ok /\ d1 # d
\* the Read of a Decode waits for bytes the server has not written yet
NeedsMoreBytes(bytes, pos) ==
    FailsShort(DecodeFrameBody(KindOfType(bytes[pos]), bytes, pos + 1),
               DecodeFrameBody(KindOfType(bytes[pos]), bytes \o <<0>>, pos + 1))

\* ntEntryAssignment.Encode and ntEntryUpdate.Encode as the server runs them,
\* after the message type: type is the entry type byte, value the value's bytes
AssignmentFrame(name, type, id, seq, flags, value) ==
    <<entryAssignmentMessageType>> \o ntStringEncode(GoBytes(name)) \o <<type>>
    \o PutUint16(id) \o PutUint16(seq) \o <<flags>> \o value
UpdateFrame(id, seq, type, value) ==
    <<entryUpdateMessageType>> \o PutUint16(id) \o PutUint16(seq) \o <<type>> \o value
DeleteFrame(id) == <<entryDeleteMessageType>> \o PutUint16(id)

\* the values of RPC definitions: a length and that many bytes. The bytes of
\* the second spell an entry-delete of id 0.
RpcValues == {<<1, 0>>, <<3, entryDeleteMessageType, 0, 0>>}

\* the frames whose entry type is 0x20
RpcFrames ==
    {AssignmentFrame("y", remoteProcedureCallDefinitionEntryType, 1, 0, 0, v) : v \in RpcValues}
    \cup {UpdateFrame(0, 1, remoteProcedureCallDefinitionEntryType, v) : v \in RpcValues}

\* the frames the server sends
ServerFrames ==
    RpcFrames
    \cup {<<keepAliveMessageType>>, DeleteFrame(0), DeleteFrame(1),
          AssignmentFrame("x", 0, 0, 0, 1, ntBooleanEncode(TRUE)),
          AssignmentFrame("y", 2, 1, 1, 0, ntStringEncode(<<104, 105>>)),
          UpdateFrame(0, 1, 0, ntBooleanEncode(FALSE))}

\* the position at which each frame of a burst starts
RECURSIVE StartsOf(_)
StartsOf(fs) ==
    IF fs = <<>> THEN {}
    ELSE {1} \cup {q + Len(Head(fs)) : q \in StartsOf(Tail(fs))}
\* the bytes of a burst
RECURSIVE Concat(_)
Concat(fs) == IF fs = <<>> THEN <<>> ELSE Head(fs) \o Concat(Tail(fs))

\* the server writes a burst of frames on the connection, once the client's
\* reader is running
ServerSends(fs) ==
    /\ Alive
    /\ conn # 0
    /\ rpc[conn] # "none"
    /\ inbound = NoInbound
    /\ inbound' = [NoInbound EXCEPT !.buf = Concat(fs), !.starts = StartsOf(fs)]
    /\ UNCHANGED <<storeVars, sockVars, callVars, hs, hsComplete, readerVars, loc, wire,
                   calls, store0, hist, codec>>

\* the frame that starts at position p ends before the next start or with the bytes
FrameEnd(p) ==
    LET later == {q \in inbound.starts : q > p} IN
    IF later = {} THEN Len(inbound.buf) + 1
    ELSE CHOOSE q \in later : \A r \in later : q <= r

\* a listen that returns on every error
listenOn_AnyErrorReturns(ret) ==
    CASE ret = "panic" -> "panic" [] ret = "nil" -> "check" [] OTHER -> "exit"
\* listen, lines 353-364: where the reader goes on what handleResponse returned;
\* only io.EOF ends the loop, any other error is logged
listenOn(ret) ==
    CASE ret = "panic" -> "panic" [] ret = "eof" -> "exit" [] OTHER -> "check"

\* listen, lines 353-364, on what handleResponse returned (r): the store and the
\* reader's position in the stream are as the call left them, and an error that
\* is not io.EOF is logged
Handled(k, r) ==
    /\ store' = r.s
    /\ inbound' = [inbound EXCEPT !.pos = @ + r.n, !.last = inbound.pos]
    /\ rpc' = [rpc EXCEPT ![k] = listenOn(r.ret)]

\* handleResponse (lines 371-459) called by listen with bytes waiting on the
\* socket: type and body are decoded from the stream and the store operation is
\* applied
HandleResponse(k) ==
    /\ Alive
    /\ rpc[k] = "hr"
    /\ conn # 0
    /\ conn \notin closed \cup peerGone
    /\ userStore
    /\ inbound.pos <= Len(inbound.buf)
    /\ ~NeedsMoreBytes(inbound.buf, inbound.pos)
    /\ Handled(k, handleResponse(inbound.buf, inbound.pos, store))
    /\ UNCHANGED <<userStore, memoryStore, storeMu, sockVars, callVars, hs, hsComplete,
                   rtarget, rmsg, loc, wire, calls, store0, hist, codec>>

\* one caller connects with Ping; the server sends an assignment in the
\* handshake and bursts of frames afterwards
NextFr ==
    \/ StartOp("c1", "ping")
    \/ GetConn("c1")
    \/ Dial("c1")
    \/ HsHello("c1")
    \/ HsAwait("c1")
    \/ HsRecv("c1", {Entry("x", 0, 0, FALSE, TRUE)})
    \/ HsSend("c1")
    \/ Spawn("c1")
    \/ WriteType("c1")
    \/ \E fs \in [1..MaxFrames -> ServerFrames] : ServerSends(fs)
    \/ \E k \in ConnIds : Listen(k)
    \/ \E k \in ConnIds : HandleResponse(k)

SpecFr == Init /\ [][NextFr]_vars

\* the message handleResponse has just handled is a whole frame of the server
\* whose entry type is 0x20
LastWasRpcFrame ==
    /\ inbound.last \in inbound.starts
    /\ SubSeq(inbound.buf, inbound.last, FrameEnd(inbound.last) - 1) \in RpcFrames

\* C32 (the claim as stated): when the dispatcher handles an entry-assignment or
\* entry-update of entry type 0x20, the store is unchanged, the connection stays
\* up, the reader goes on, and the next message is decoded from the first byte
\* after that frame.
C32_RpcFrameIsSkipped ==
    [][(inbound' # inbound /\ LastWasRpcFrame')
          => /\ store' = store
             /\ conn' = conn
             /\ conn' # 0
             /\ \A k \in ConnIds : rpc'[k] \notin {"exit", "dead", "panic"}
             /\ inbound'.pos = FrameEnd(inbound.pos)]_vars

\* the reader is about to decode a whole entry-delete frame whose id has no entry
DeleteOfUnknownId ==
    /\ inbound.pos \in inbound.starts
    /\ \E i \in Ids :
          /\ i \notin DOMAIN store.ids
          /\ SubSeq(inbound.buf, inbound.pos, FrameEnd(inbound.pos) - 1) = DeleteFrame(i)

\* C33: when the dispatcher handles an entry-delete whose id the store does not
\* hold, the store's error is only logged: the store is as it was, the connection
\* handle stays set, the reader is back at the top of its loop, and it has read
\* the frame and no more, so the messages that follow are decoded and applied.
C33_StoreErrorIsSkipped ==
    [][(DeleteOfUnknownId /\ inbound' # inbound)
          => /\ store' = store
             /\ conn' = conn
             /\ conn' # 0
             /\ \A k \in ConnIds : rpc[k] = "hr" => rpc'[k] = "check"
             /\ inbound'.pos = FrameEnd(inbound.pos)]_vars

\* an entry-delete of id 1, which the store did not hold, was followed by an
\* assignment of y with id 1, and that assignment was applied
C33_Witness ==
    /\ inbound.buf = DeleteFrame(1) \o AssignmentFrame("y", 2, 1, 1, 0, ntStringEncode(<<104, 105>>))
    /\ inbound.pos = Len(inbound.buf) + 1
    /\ conn = 1
    /\ rpc[1] = "check"
    /\ StoreGetByName(store, "y") = [ok |-> TRUE, e |-> Entry("y", 1, 1, FALSE, <<104, 105>>)]

(***************************************************************************)
(* C34: the store of three mappings that the records are compared with.    *)
(* n2i maps a name to its id, i2n an id to its name, rec an id to its      *)
(* value, options and sequence number.                                     *)
(***************************************************************************)
\* the three mappings a store of records stands for
AbsOf(s) ==
    [n2i |-> s.names, i2n |-> s.ids,
     rec |-> [i \in DOMAIN s.val \cap DOMAIN s.opt \cap DOMAIN s.seq |->
                 [val |-> s.val[i], opt |-> s.opt[i], seq |-> s.seq[i]]]]

\* create: an entry of the same name is removed first, then the three mappings
\* are written
AbsCreate(a, e) ==
    LET old == a.n2i[e.name]
        d == IF e.name \in DOMAIN a.n2i
             THEN [n2i |-> Del(a.n2i, e.name), i2n |-> Del(a.i2n, old), rec |-> Del(a.rec, old)]
             ELSE a
    IN [n2i |-> Put(d.n2i, e.name, e.id), i2n |-> Put(d.i2n, e.id, e.name),
        rec |-> Put(d.rec, e.id, [val |-> e.val, opt |-> e.opt, seq |-> e.seq])]

\* the other operations: not_found leaves the mappings as they are
AbsCall(a, o, x) ==
    CASE o = "Create" -> AbsCreate(a, x)
      [] o = "UpdateValue" ->
            IF x.id \in DOMAIN a.rec
            THEN [a EXCEPT !.rec[x.id].val = x.val, !.rec[x.id].seq = x.seq] ELSE a
      [] o = "UpdateOptions" ->
            IF x.id \in DOMAIN a.rec THEN [a EXCEPT !.rec[x.id].opt = x.opt] ELSE a
      [] o = "Delete" ->
            IF x.id \in DOMAIN a.i2n
            THEN [n2i |-> Del(a.n2i, a.i2n[x.id]), i2n |-> Del(a.i2n, x.id),
                  rec |-> Del(a.rec, x.id)]
            ELSE a
      [] o = "DeleteByName" ->
            IF x.name \in DOMAIN a.n2i
            THEN [n2i |-> Del(a.n2i, x.name), i2n |-> Del(a.i2n, a.n2i[x.name]),
                  rec |-> Del(a.rec, a.n2i[x.name])]
            ELSE a
      [] o = "Clear" -> AbsOf(EmptyStore)

\* the three mappings before the i-th call of hist
RECURSIVE AbsBefore(_)
AbsBefore(i) ==
    IF i <= 1 THEN AbsOf(store0)
    ELSE AbsCall(AbsBefore(i - 1), hist[i - 1].op, hist[i - 1].a)

\* get_by_name and get_id_seq on the three mappings, as a set holding the answer
\* (empty for not_found)
AbsGetByName(a, n) ==
    IF n \in DOMAIN a.n2i /\ a.n2i[n] \in DOMAIN a.rec
    THEN {Entry(n, a.n2i[n], a.rec[a.n2i[n]].seq, a.rec[a.n2i[n]].opt, a.rec[a.n2i[n]].val)}
    ELSE {}
AbsGetIDSeq(a, n) ==
    IF n \in DOMAIN a.n2i /\ a.n2i[n] \in DOMAIN a.rec
    THEN {<<a.n2i[n], a.rec[a.n2i[n]].seq>>} ELSE {}
\* the same answers of the store of records
RecGetByName(s, n) == IF StoreGetByName(s, n).ok THEN {StoreGetByName(s, n).e} ELSE {}
RecGetIDSeq(s, n) ==
    IF StoreGetIDSeq(s, n).ok THEN {<<StoreGetIDSeq(s, n).id, StoreGetIDSeq(s, n).seq>>}
    ELSE {}

\* C34 (the claim as stated): after every sequence of Store calls, GetByName and
\* GetIDSeq of every name and GetNames answer as the three mappings do after the
\* same calls.
C34_RecordsRefineMappings ==
    LET a == AbsBefore(Len(hist) + 1) IN
    /\ NameSet(store) = DOMAIN a.n2i
    /\ \A n \in Names :
          /\ RecGetByName(store, n) = AbsGetByName(a, n)
          /\ RecGetIDSeq(store, n) = AbsGetIDSeq(a, n)

\* C35 (the claim as stated): a Create of a name the store does not hold leaves
\* GetByName of every other name as it was (id, sequence number, options and
\* value), also for the entry whose id is 0. The names looked at are those whose
\* id is not the id of the created entry.
C35_CreateLeavesOtherEntries ==
    LET c == hist[Len(hist)]
        before == StoreBefore(Len(hist))
    IN (Len(hist) >= 1 /\ c.op = "Create" /\ c.a.name \notin DOMAIN before.names)
          => \A n \in DOMAIN before.names :
                before.names[n] # c.a.id
                   => StoreGetByName(store, n) = StoreGetByName(before, n)

\* a zero-value Client: no Store is configured, so getStore opens the in-memory
\* badger db under storeMu
InitMem ==
    /\ InitCommon
    /\ userStore = FALSE
    /\ store = EmptyStore

\* the callers and readers of Spec on that Client
SpecMem == InitMem /\ [][Next]_vars

\* C36 (the claim as stated, its safety part): no state is reached in which Close
\* holds storeMu and waits for connMu while the caller that is connecting holds
\* connMu and waits, in the handshake's getStore, for storeMu.
C36_NoMutexDeadlock ==
    ~ \E p, q \in Callers :
         /\ pc[p] = "close_conn"
         /\ storeMu = p
         /\ connMu = q
         /\ pc[q] = "hs_hello"
         /\ ~userStore

\* C37 (the claim as stated): the reader of a connection, when it ends, clears
\* c.conn only if c.conn is still its own connection: a reader whose connection
\* was closed and replaced leaves the new handle set.
C37_ExitClearsOwnHandleOnly ==
    [][\A k \in ConnIds :
          (rpc[k] = "exit" /\ rpc'[k] = "dead" /\ conn # k) => conn' = conn]_vars

\* the frame of the update caller p's UpdateValue has put in the store was written
UpdateOnWire(p) ==
    \E i \in 1..Len(wire') :
       wire'[i] = writeEntryUpdate(loc[p].id, loc[p].seq + 1, loc[p].val)

\* C38 (the claim as stated): when UpdateValue returns an error, the store does
\* not hold a value and sequence number of that call for which no entry-update
\* was written to the connection.
C38_FailedUpdateLeavesStore ==
    [][\A p \in Callers :
          (/\ op[p] = "update"
           /\ pc[p] \notin {"uv_get", "uv_put", "done"}
           /\ pc'[p] = "done"
           /\ res'[p] = "err"
           /\ loc[p].id \in DOMAIN store'.seq \cap DOMAIN store'.val
           /\ store'.seq[loc[p].id] = loc[p].seq + 1
           /\ store'.val[loc[p].id] = loc[p].val)
             => UpdateOnWire(p)]_vars

\* a client reconnects: its configured Store holds what earlier calls left, one
\* caller connects with Ping, and the server sends assignments in the handshake
InitRc ==
    /\ InitIdle
    /\ userStore = TRUE
    /\ store \in StSeeds
    /\ store0 = store
    /\ hist = <<>>

NextRc ==
    \/ StartOp("c1", "ping")
    \/ GetConn("c1")
    \/ Dial("c1")
    \/ HsHello("c1")
    \/ HsAwait("c1")
    \/ HsRecv("c1", BodyEntries)
    \/ HsSend("c1")
    \/ Spawn("c1")
    \/ WriteType("c1")

SpecRc == InitRc /\ [][NextRc]_vars

\* C39 (the claim as stated): every assignment the handshake has written for a
\* local entry carries the sequence number, options and value GetByName gave for
\* that name before the handshake.
C39_SentAssignmentIsLocalEntry ==
    \A i \in 1..Len(hs.sent) :
        LET a == hs.sent[i]
            e0 == StoreGetByName(store0, a.name)
        IN e0.ok => /\ a.seq = e0.e.seq
                    /\ a.opt = e0.e.opt
                    /\ a.val = e0.e.val

\* the sockets net.Dial has returned so far
Dialed == 1..nextConn

\* C40 (the claim as stated): every socket the client has dialed is the current
\* handle or has been closed.
C40_NoLeakedConnection ==
    \A k \in Dialed : k = conn \/ k \in closed

====
